---- MODULE Spec2Model ----
(***************************************************************************)
(* Clover: the bytecode interpreter (src/Runtime) and the Clover compiler  *)
(* (src/Compiler) as state machines.                                       *)
(*                                                                         *)
(* The interpreter is modelled at the level of one iteration of the        *)
(* dispatch loop of Interpreter::execute over a concrete executable image. *)
(* Words are 32 bit, pc/sp/bp are 16 bit signed as in the source.          *)
(***************************************************************************)
EXTENDS Integers, Sequences, FiniteSets, TLC

VARIABLES
    executable,  \* the bytes the host serves through rom(i)
    vm,          \* the Interpreter object, its Stack included
    mode,        \* which host call is inside execute: "idle", "init", "loop"
    host,        \* what the host has seen: results of compile(), init() and loop()
    frames,      \* ghost: one record per frame entered and not yet left
    refTag,      \* ghost: for each stack slot, the stack word a reference in it was made for
    last,        \* ghost: the instruction the last step dispatched
    src,         \* the Clover program handed to the compiler
    cs           \* the CompileEngine object

vars == <<executable, vm, mode, host, frames, refTag, last, src, cs>>

(***************************************************************************)
(* Machine integers.                                                       *)
(* A 32 bit word is held as the integer its two's complement reading       *)
(* names, -2^31 .. 2^31-1; uint32_t(-1) is the word -1.  Arithmetic that   *)
(* can leave that range is done on halves or bytes.                        *)
(***************************************************************************)
W8 == 256
W16 == 65536
MinInt32 == -2147483647 - 1
MaxInt32 == -(MinInt32 + 1)

ToU8(x) == x % W8
ToU16(x) == x % W16
ToInt16(x) == LET u == x % W16 IN IF u >= 32768 THEN u - W16 ELSE u

\* a as unsigned is at most k, for 0 <= k < 2^31
UnsignedLE(a, k) == a >= 0 /\ a <= k

ByteOf(w, i) ==
    CASE i = 0 -> w % 256
      [] i = 1 -> (w \div 256) % 256
      [] i = 2 -> (w \div 65536) % 256
      [] i = 3 -> (w \div 16777216) % 256

FromBytes(b0, b1, b2, b3) ==
    b0 + 256 * b1 + 65536 * b2 + 16777216 * (IF b3 >= 128 THEN b3 - 256 ELSE b3)

Add32(a, b) ==
    LET lo == (a % W16) + (b % W16)
        hi == (a \div W16) + (b \div W16) + (lo \div W16)
    IN  ToInt16(hi) * W16 + (lo % W16)

Neg32(a) == IF a = MinInt32 THEN MinInt32 ELSE -a

Sub32(a, b) == Add32(a, Neg32(b))

Mul32(a, b) ==
    LET t0 == ByteOf(a, 0) * ByteOf(b, 0)
        t1 == ByteOf(a, 0) * ByteOf(b, 1) + ByteOf(a, 1) * ByteOf(b, 0) + (t0 \div 256)
        t2 == ByteOf(a, 0) * ByteOf(b, 2) + ByteOf(a, 1) * ByteOf(b, 1)
              + ByteOf(a, 2) * ByteOf(b, 0) + (t1 \div 256)
        t3 == ByteOf(a, 0) * ByteOf(b, 3) + ByteOf(a, 1) * ByteOf(b, 2)
              + ByteOf(a, 2) * ByteOf(b, 1) + ByteOf(a, 3) * ByteOf(b, 0) + (t2 \div 256)
    IN  FromBytes(t0 % 256, t1 % 256, t2 % 256, t3 % 256)

\* C++ division truncates toward zero; b # 0 and not MinInt32 / -1
TruncDiv(a, b) ==
    IF b > 0
    THEN (IF a < 0 /\ a % b # 0 THEN (a \div b) + 1 ELSE a \div b)
    ELSE IF b = MinInt32 THEN (IF a = MinInt32 THEN 1 ELSE 0)
    ELSE LET q == IF a < 0 /\ a % (-b) # 0 THEN (a \div (-b)) + 1 ELSE a \div (-b)
         IN  -q

DivUndefined(a, b) == b = 0 \/ (a = MinInt32 /\ b = -1)

BoolBit(b) == IF b THEN 1 ELSE 0

BitF(f, x, y) ==
    CASE f = "or"  -> (IF x + y > 0 THEN 1 ELSE 0)
      [] f = "and" -> x * y
      [] f = "xor" -> (x + y) % 2

RECURSIVE BitOpLow(_, _, _, _)
BitOpLow(f, a, b, n) ==
    IF n = 0 THEN 0
    ELSE 2 * BitOpLow(f, a \div 2, b \div 2, n - 1) + BitF(f, a % 2, b % 2)

BitOp(f, a, b) ==
    LET low == BitOpLow(f, a, b, 31)
    IN  IF BitF(f, BoolBit(a < 0), BoolBit(b < 0)) = 1 THEN low + MinInt32 ELSE low

BoolWord(b) == IF b THEN 1 ELSE 0

(***************************************************************************)
(* Opcodes.h                                                               *)
(***************************************************************************)
ConstStart == 0
GlobalStart == 128
LocalStart == 192
ConstSize == 128
GlobalSize == 64
LocalSize == 64

OpNone == 15
OpPush == 16
OpPop == 17
OpPushIntConst == 18
OpPushRef == 19
OpPushDeref == 20
OpPopDeref == 21
OpDup == 32
OpDrop == 33
OpSwap == 34
OpIf == 58
OpElse == 59
OpEndIf == 60
OpCallNative == 63
OpReturn == 64
OpSetFrame == 65
OpJump == 66
OpLoop == 67
OpOr == 80
OpXor == 81
OpAnd == 82
OpNot == 83
OpLOr == 84
OpLAnd == 85
OpLNot == 86
OpLTInt == 87
OpLTFloat == 88
OpLEInt == 89
OpLEFloat == 90
OpEQInt == 91
OpEQFloat == 92
OpNEInt == 93
OpNEFloat == 94
OpGEInt == 95
OpGEFloat == 96
OpGTInt == 97
OpGTFloat == 98
OpAddInt == 99
OpAddFloat == 100
OpSubInt == 101
OpSubFloat == 102
OpMulInt == 103
OpMulFloat == 104
OpDivInt == 105
OpDivFloat == 106
OpNegInt == 107
OpNegFloat == 108
OpPreIncInt == 109
OpPreIncFloat == 110
OpPreDecInt == 111
OpPreDecFloat == 112
OpPostIncInt == 113
OpPostIncFloat == 114
OpPostDecInt == 115
OpPostDecFloat == 116
OpCall == 128
OpOffset == 144
OpIndex == 160
OpPushIntConstS == 176
OpLog == 192
OpEnd == 255

(***************************************************************************)
(* Interpreter.h: constants, rom access                                    *)
(***************************************************************************)
MaxStackSize == 128
StackOverhead == 64
ParamsSize == 16
ConstOffset == 8

\* Interpreter::rom, as the host implements it: bytes past the image read 0
rom(i) == IF ToU16(i) < Len(executable) THEN executable[ToU16(i) + 1] ELSE 0

getUInt8ROM(index) == rom(ToU16(index))

getUInt16ROM(index) == getUInt8ROM(index) + 256 * getUInt8ROM(index + 1)

(***************************************************************************)
(* Interpreter.h: class Stack.  The Stack's fields are the fields size,    *)
(* sp, bp, stack and stackError of vm.  An operation that returns a value  *)
(* and changes the object is two operators: the state after, and the       *)
(* value.  A read outside the array yields the word j; a write outside     *)
(* the array is recorded in the field ub and otherwise lost.               *)
(***************************************************************************)
InArray(s, a) == a >= 0 /\ a < s.size

ReadWord(s, a, j) == IF InArray(s, a) THEN s.stack[a] ELSE j

WriteWord(s, a, v) ==
    IF InArray(s, a) THEN [s EXCEPT !.stack[a] = v] ELSE [s EXCEPT !.ub = TRUE]

ensureCount(s, n) == IF s.sp < ToU8(n) THEN [s EXCEPT !.stackError = "StackUnderrun"] ELSE s

ensureRel(s, rel) ==
    LET addr == ToInt16(s.sp - ToU8(rel) - 1)
    IN  IF addr < 0 \/ addr >= s.size THEN [s EXCEPT !.stackError = "StackOutOfRange"] ELSE s

ensureLocal(s, i) ==
    LET addr == ToInt16(s.bp + ToU8(i))
    IN  IF addr < 0 \/ addr >= s.sp THEN [s EXCEPT !.stackError = "StackOutOfRange"] ELSE s

ensurePush(s) == IF s.sp >= s.size THEN [s EXCEPT !.stackError = "StackOverrun"] ELSE s

\* Stack::get: the check, and the index it then uses
getCheck(s, addr) ==
    IF ToInt16(addr) >= s.size THEN [s EXCEPT !.stackError = "StackOverrun"] ELSE s

push(s, v) ==
    LET e == ensurePush(s)
    IN  [WriteWord(e, e.sp, v) EXCEPT !.sp = ToInt16(e.sp + 1)]

pop(s, n) == [ensureCount(s, n) EXCEPT !.sp = ToInt16(s.sp - ToU8(n))]

popValue(s, n, j) == ReadWord(s, ToInt16(s.sp - ToU8(n)), j)

swap(s) ==
    LET e == ensureCount(s, 2)
        t == e.sp - 1
        u == e.sp - 2
    IN  IF InArray(e, t) /\ InArray(e, u)
        THEN [e EXCEPT !.stack[t] = e.stack[u], !.stack[u] = e.stack[t]]
        ELSE [e EXCEPT !.ub = TRUE]

\* Stack::top as an rvalue and as an lvalue
top(s) == ensureRel(s, 0)
topValue(s, j) == ReadWord(s, s.sp - 1, j)
setTop(s, v) == WriteWord(ensureRel(s, 0), s.sp - 1, v)

\* Stack::local
localCheck(s, addr) == getCheck(ensureLocal(s, addr), ToU16(addr + s.bp))
localValue(s, addr, j) == ReadWord(s, ToU16(addr + s.bp), j)
setLocal(s, addr, v) == WriteWord(localCheck(s, addr), ToU16(addr + s.bp), v)

\* Stack::abs
absCheck(s, addr) == getCheck(ensureCount(s, addr), ToU16(addr))
absValue(s, addr, j) == ReadWord(s, ToU16(addr), j)
setAbs(s, addr, v) == WriteWord(absCheck(s, addr), ToU16(addr), v)

empty(s) == s.sp = 0

\* setFrame with the new bp taken one word too high
setFrameHighBP(s, params, locals, j) ==
    LET savedPC == ToInt16(popValue(s, 1, j))
        s1 == pop(s, 1)
        s2 == [s1 EXCEPT !.sp = ToInt16(s1.sp + locals)]
        s3 == push(s2, savedPC)
        s4 == push(s3, s3.bp)
        newBP == ToInt16(s4.sp - params - locals - 1)
    IN  IF newBP < 0
        THEN [s4 EXCEPT !.stackError = "NotEnoughArgs"]
        ELSE [s4 EXCEPT !.bp = newBP]

\* Stack::setFrame; setFrameOK is its return value
setFrame(s, params, locals, j) ==
    LET savedPC == ToInt16(popValue(s, 1, j))
        s1 == pop(s, 1)
        s2 == [s1 EXCEPT !.sp = ToInt16(s1.sp + locals)]
        s3 == push(s2, savedPC)
        s4 == push(s3, s3.bp)
        newBP == ToInt16(s4.sp - params - locals - 2)
    IN  IF newBP < 0
        THEN [s4 EXCEPT !.stackError = "NotEnoughArgs"]
        ELSE [s4 EXCEPT !.bp = newBP]

setFrameOK(s, params, locals) == ToInt16(s.sp + locals + 1 - params - locals - 2) >= 0

\* restoreFrame that leaves sp where the two pops put it
restoreFrameKeepSP(s, returnValue, j) ==
    LET savedBP == ToInt16(popValue(s, 1, j))
        s1 == pop(s, 1)
        s2 == pop(s1, 1)
        s3 == [s2 EXCEPT !.bp = savedBP]
    IN  push(s3, returnValue)

\* Stack::restoreFrame; restoreFramePC is its return value
restoreFrame(s, returnValue, j) ==
    LET savedBP == ToInt16(popValue(s, 1, j))
        s1 == pop(s, 1)
        s2 == pop(s1, 1)
        s3 == [s2 EXCEPT !.sp = s2.bp, !.bp = savedBP]
    IN  push(s3, returnValue)

restoreFramePC(s, j) == ToInt16(popValue(pop(s, 1), 1, j))

(***************************************************************************)
(* Interpreter.h: Address, loadInt, storeInt                               *)
(***************************************************************************)
fromId(id) ==
    IF id < GlobalStart THEN [type |-> "Const", addr |-> id]
    ELSE IF id < LocalStart THEN [type |-> "Global", addr |-> id % 64]
    ELSE [type |-> "LocalRel", addr |-> id % 64]

\* The dispatch loop passes ids (8 bit operands, and words popped from the
\* stack) where loadInt and storeInt take an Address: the id names the
\* address as Address::fromId decodes it.
idAddress(w) == fromId(ToU8(w))

ReadGlobal(s, a, j) == IF a < s.globalSize THEN s.global[a] ELSE j

\* loadInt with the constants taken to start at byte 12 of the image
loadIntOffset12(s, addr, index, j) ==
    CASE addr.type = "Const" ->
            LET a == ToU16((addr.addr + index) * 4 + 12)
            IN  FromBytes(getUInt8ROM(a), getUInt8ROM(a + 1),
                          getUInt8ROM(a + 2), getUInt8ROM(a + 3))
      [] addr.type = "Global" -> ReadGlobal(s, addr.addr + index, j)
      [] addr.type = "LocalRel" -> localValue(s, addr.addr + index, j)
      [] addr.type = "LocalAbs" -> absValue(s, addr.addr + index, j)
      [] OTHER -> 0

loadInt(s, addr, index, j) ==
    CASE addr.type = "Const" ->
            LET a == ToU16((addr.addr + index) * 4 + ConstOffset)
            IN  FromBytes(getUInt8ROM(a), getUInt8ROM(a + 1),
                          getUInt8ROM(a + 2), getUInt8ROM(a + 3))
      [] addr.type = "Global" -> ReadGlobal(s, addr.addr + index, j)
      [] addr.type = "LocalRel" -> localValue(s, addr.addr + index, j)
      [] addr.type = "LocalAbs" -> absValue(s, addr.addr + index, j)
      [] OTHER -> 0

\* the state loadInt leaves: the checks of Stack::local and Stack::abs
loadIntCheck(s, addr, index) ==
    CASE addr.type = "Const" -> s
      [] addr.type = "Global" -> s
      [] addr.type = "LocalRel" -> localCheck(s, addr.addr + index)
      [] addr.type = "LocalAbs" -> absCheck(s, addr.addr + index)
      [] OTHER -> [s EXCEPT !.error = "AddressOutOfRange"]

storeInt(s, addr, index, v) ==
    CASE addr.type = "Const" -> s
      [] addr.type = "Global" ->
            IF addr.addr + index < s.globalSize
            THEN [s EXCEPT !.global[addr.addr + index] = v]
            ELSE [s EXCEPT !.ub = TRUE]
      [] addr.type = "LocalRel" -> setLocal(s, addr.addr + index, v)
      [] addr.type = "LocalAbs" -> setAbs(s, addr.addr + index, v)
      [] OTHER -> [s EXCEPT !.error = "AddressOutOfRange"]

\* getId, getConst, getSz: the byte at pc, and pc moved past it
getId(s) == getUInt8ROM(s.pc)
skipByte(s) == [s EXCEPT !.pc = ToInt16(s.pc + 1)]

\* execute's return statement
returnWith(s, value) == [s EXCEPT !.halted = TRUE, !.result = value]

(***************************************************************************)
(* Interpreter.cpp: Interpreter::execute.  s is the interpreter after the  *)
(* opcode byte was fetched; each operator below is one case of the switch. *)
(* IEEE arithmetic is not computed: a float operator yields the word j.    *)
(***************************************************************************)
\* value = pop(); top() = top() <op> value
BinaryInt(s, cmd, j) ==
    LET value == (popValue(s, 1, j))
        s1 == pop(s, 1)
        t == (topValue(s1, j))
        r == CASE cmd = OpLTInt -> BoolWord(t < value)
               [] cmd = OpLEInt -> BoolWord(t <= value)
               [] cmd = OpEQInt -> BoolWord(t = value)
               [] cmd = OpNEInt -> BoolWord(t # value)
               [] cmd = OpGEInt -> BoolWord(t >= value)
               [] cmd = OpGTInt -> BoolWord(t > value)
               [] cmd = OpAddInt -> Add32(t, value)
               [] cmd = OpSubInt -> Sub32(t, value)
               [] cmd = OpMulInt -> Mul32(t, value)
               [] cmd = OpDivInt -> IF DivUndefined(t, value) THEN j ELSE TruncDiv(t, value)
    IN  IF cmd = OpDivInt /\ DivUndefined(t, value)
        THEN [setTop(top(s1), r) EXCEPT !.ub = TRUE]
        ELSE setTop(top(s1), r)

BinaryFloat(s, cmd, j) ==
    LET s1 == pop(s, 1)
    IN  IF cmd \in {OpLTFloat, OpLEFloat, OpEQFloat, OpNEFloat, OpGEFloat, OpGTFloat}
        THEN setTop(top(s1), j % 2)
        ELSE setTop(top(s1), j)

\* top() <op>= pop(): the right operand is evaluated first
BinaryBits(s, cmd, j) ==
    LET value == popValue(s, 1, j)
        s1 == pop(s, 1)
        t == topValue(s1, j)
        f == CASE cmd = OpOr -> "or" [] cmd = OpXor -> "xor" [] cmd = OpAnd -> "and"
    IN  setTop(top(s1), BitOp(f, t, value))

\* push(pop() || pop()) and push(pop() && pop()): the second pop is not
\* evaluated when the first decides
Logical(s, cmd, j) ==
    LET a == popValue(s, 1, j)
        s1 == pop(s, 1)
        b == popValue(s1, 1, j)
        s2 == pop(s1, 1)
    IN  IF cmd = OpLOr
        THEN (IF a # 0 THEN push(s1, 1) ELSE push(s2, BoolWord(b # 0)))
        ELSE (IF a = 0 THEN push(s1, 0) ELSE push(s2, BoolWord(b # 0)))

\* IncDecInt with the post variants pushing the new value too
IncDecIntNew(s, cmd, j) ==
    LET addr == idAddress(popValue(s, 1, j))
        s1 == pop(s, 1)
        value == (loadInt(s1, addr, 0, j))
        s2 == loadIntCheck(s1, addr, 0)
        valueAfter == IF cmd \in {OpPreIncInt, OpPostIncInt} THEN Add32(value, 1) ELSE Sub32(value, 1)
        s3 == storeInt(s2, addr, 0, valueAfter)
    IN  push(s3, valueAfter)

IncDecInt(s, cmd, j) ==
    LET addr == idAddress(popValue(s, 1, j))
        s1 == pop(s, 1)
        value == (loadInt(s1, addr, 0, j))
        s2 == loadIntCheck(s1, addr, 0)
        valueAfter == IF cmd \in {OpPreIncInt, OpPostIncInt} THEN Add32(value, 1) ELSE Sub32(value, 1)
        s3 == storeInt(s2, addr, 0, valueAfter)
    IN  push(s3, (IF cmd \in {OpPreIncInt, OpPreDecInt} THEN valueAfter ELSE value))

IncDecFloat(s, cmd, j) ==
    LET addr == idAddress(popValue(s, 1, j))
        s1 == pop(s, 1)
        s2 == loadIntCheck(s1, addr, 0)
        s3 == storeInt(s2, addr, 0, j)
    IN  push(s3, j)

ExecIf(s, j) ==
    LET id == getId(s)
        s1 == skipByte(s)
        s2 == pop(s1, 1)
    IN  IF popValue(s1, 1, j) = 0
        THEN LET s3 == [s2 EXCEPT !.pc = ToInt16(s2.pc + id)]
                 cmd == getUInt8ROM(s3.pc)
                 s4 == skipByte(s3)
             IN  IF cmd = OpEndIf THEN s4
                 ELSE IF cmd = OpElse THEN skipByte(s4)
                 ELSE returnWith([s4 EXCEPT !.error = "UnexpectedOpInIf"], -1)
        ELSE s2

ExecCall(s, index) ==
    LET targ == getId(s) + 256 * index
        s1 == skipByte(s)
        s2 == push(s1, s1.pc)
        s3 == [s2 EXCEPT !.pc = ToInt16(targ + s2.codeOffset)]
    IN  IF getUInt8ROM(s3.pc) # OpSetFrame
        THEN returnWith([s3 EXCEPT !.error = "ExpectedSetFrame"], -1)
        ELSE s3

\* Return that leaves the value on the stack when it leaves the outermost frame
ExecReturnKeepValue(s, j) ==
    LET retVal == IF empty(s) THEN 0 ELSE popValue(s, 1, j)
        s1 == IF empty(s) THEN s ELSE pop(s, 1)
    IN  IF empty(s1) THEN returnWith(s1, 0)
        ELSE LET pc == restoreFramePC(s1, j)
                 s2 == [restoreFrame(s1, retVal, j) EXCEPT !.pc = pc]
             IN  IF pc < 0 THEN returnWith(s2, retVal) ELSE s2

ExecReturn(s, j) ==
    LET retVal == IF empty(s) THEN 0 ELSE popValue(s, 1, j)
        s1 == IF empty(s) THEN s ELSE pop(s, 1)
    IN  IF empty(s1) THEN returnWith(s1, 0)
        ELSE LET pc == restoreFramePC(s1, j)
                 s2 == [restoreFrame(s1, retVal, j) EXCEPT !.pc = pc]
             IN  IF pc < 0 THEN returnWith(pop(s2, 1), retVal) ELSE s2

\* getPL: the operand byte of SetFrame, params in its high and locals in
\* its low four bits
getP(s) == getUInt8ROM(s.pc) \div 16
getL(s) == getUInt8ROM(s.pc) % 16

ExecSetFrame(s, j) ==
    LET s1 == skipByte(s)
        s2 == setFrame(s1, getP(s), getL(s), j)
    IN  IF ~setFrameOK(s1, getP(s), getL(s)) THEN returnWith(s2, -1) ELSE s2

(***************************************************************************)
(* Op::CallNative.  NativeCore.h numbers the core functions; execute       *)
(* switches on the same ids.                                               *)
(***************************************************************************)
IdAnimate == 0
IdParam == 1
IdFloat == 2
IdInt == 3
IdRandomInt == 7
IdRandomFloat == 8
IdInitArray == 9
IdMinInt == 10
IdMinFloat == 11
IdMaxInt == 12
IdMaxFloat == 13

\* the first switch of the case: an id without a case leaves numParams 0
nativeNumParams(id) ==
    IF id \in {IdAnimate, IdParam, IdFloat, IdInt} THEN 1
    ELSE IF id \in {IdRandomInt, IdRandomFloat, IdMinInt, IdMinFloat, IdMaxInt, IdMaxFloat} THEN 2
    ELSE IF id = IdInitArray THEN 3
    ELSE 0

\* _params[i]: init copied size bytes into the array and left the rest as
\* it was; i is a uint32_t
paramsByte(s, i, j) == IF i >= 0 /\ i < Len(s.params) THEN s.params[i + 1] ELSE ToU8(j)

\* the word memset leaves where it filled four bytes with v
memsetWord(v) == FromBytes(ToU8(v), ToU8(v), ToU8(v), ToU8(v))

\* memset over n words from word a of an array of size words; n is a uint32_t
memsetWords(words, size, a, v, n) ==
    [x \in DOMAIN words |-> IF x >= a /\ (n < 0 \/ x < a + n) THEN memsetWord(v) ELSE words[x]]

memsetInside(size, a, n) == n = 0 \/ (a >= 0 /\ n > 0 /\ a + n <= size)

initArray(s, i, v, n) ==
    IF i >= 0 /\ i < GlobalStart
    THEN returnWith([s EXCEPT !.error = "OnlyMemAddressesAllowed"], -1)
    ELSE IF i >= 0 /\ i < LocalStart
    THEN [s EXCEPT !.global = memsetWords(@, s.globalSize, i - GlobalStart, v, n),
                   !.ub = @ \/ ~memsetInside(s.globalSize, i - GlobalStart, n)]
    ELSE LET c == localCheck(s, i - LocalStart)
             a == ToU16(ToU16(i - LocalStart) + s.bp)
         IN  [c EXCEPT !.stack = memsetWords(@, s.size, a, v, n),
                       !.ub = @ \/ ~memsetInside(s.size, a, n)]

\* Interpreter::animate: the float arithmetic is not computed; cur is
\* stored always, inc when the animation turns
animate(s, index, j) ==
    LET a == idAddress(index)
        s1 == storeInt(loadIntCheck(s, a, 0), a, 0, j)
    IN  IF j = 0 THEN s1 ELSE storeInt(s1, a, 1, j)

MinOf(a, b) == IF a < b THEN a ELSE b
MaxOf(a, b) == IF a > b THEN a ELSE b

\* the second switch of the case: the interpreter after it and returnVal
callNative(s, id, j) ==
    LET l0 == localValue(s, 0, j)
        l1 == localValue(s, 1, j)
        l2 == localValue(s, 2, j)
        c1 == localCheck(s, 0)
        c2 == localCheck(c1, 1)
    IN  CASE id = IdAnimate -> [s |-> animate(c1, l0, j), returnVal |-> IF j = 0 THEN 0 ELSE 1]
          [] id = IdParam -> [s |-> c1, returnVal |-> paramsByte(s, l0, j)]
          [] id \in {IdFloat, IdInt} -> [s |-> c1, returnVal |-> j]
          [] id \in {IdRandomInt, IdRandomFloat} -> [s |-> c2, returnVal |-> j]
          [] id = IdInitArray -> [s |-> initArray(localCheck(c2, 2), l0, l1, l2), returnVal |-> 0]
          [] id = IdMinInt -> [s |-> push(c2, MinOf(l0, l1)), returnVal |-> 0]
          [] id = IdMaxInt -> [s |-> push(c2, MaxOf(l0, l1)), returnVal |-> 0]
          [] id \in {IdMinFloat, IdMaxFloat} -> [s |-> push(c2, j), returnVal |-> 0]
          [] OTHER -> [s |-> s, returnVal |-> 0]

nativeReturn(r, j) ==
    IF r.s.halted THEN r.s
    ELSE [restoreFrame(r.s, r.returnVal, j) EXCEPT !.pc = restoreFramePC(r.s, j)]

ExecCallNative(s, j) ==
    LET id == getId(s)
        s1 == skipByte(s)
        s2 == push(s1, s1.pc)
        s3 == setFrame(s2, nativeNumParams(id), 0, j)
    IN  IF ~setFrameOK(s2, nativeNumParams(id), 0) THEN returnWith(s3, -1)
        ELSE nativeReturn(callNative(s3, id, j), j)

\* the switch of execute; _pc += getSz() reads the operand, moves past it, then adds
Dispatch(s, cmd, index, j) ==
    CASE cmd = OpPush ->
            LET a == idAddress(getId(s))
                s1 == skipByte(s)
            IN  push(loadIntCheck(s1, a, 0), loadInt(s1, a, 0, j))
      [] cmd = OpPop ->
            LET a == idAddress(getId(s))
                s1 == skipByte(s)
            IN  storeInt(pop(s1, 1), a, 0, popValue(s1, 1, j))
      [] cmd = OpPushIntConst -> push(skipByte(s), getId(s))
      [] cmd = OpPushIntConstS -> push(s, index)
      [] cmd = OpPushRef -> push(skipByte(s), getId(s))
      [] cmd = OpPushDeref ->
            LET a == idAddress(popValue(s, 1, j))
                s1 == pop(s, 1)
            IN  push(loadIntCheck(s1, a, 0), loadInt(s1, a, 0, j))
      [] cmd = OpPopDeref ->
            LET value == popValue(s, 1, j)
                s1 == pop(s, 1)
                a == idAddress(popValue(s1, 1, j))
            IN  storeInt(pop(s1, 1), a, 0, value)
      [] cmd = OpOffset -> setTop(top(s), Add32(topValue(s, j), index))
      [] cmd = OpIndex ->
            LET value == popValue(s, 1, j)
                s1 == pop(s, 1)
            IN  setTop(top(s1), Add32(topValue(s1, j), Mul32(value, index)))
      [] cmd = OpDup -> push(top(s), topValue(s, j))
      [] cmd = OpDrop -> pop(s, 1)
      [] cmd = OpSwap -> swap(s)
      [] cmd = OpIf -> ExecIf(s, j)
      [] cmd = OpElse -> [s EXCEPT !.pc = ToInt16(s.pc + 1 + getId(s))]
      [] cmd = OpEndIf -> s
      [] cmd = OpJump -> [s EXCEPT !.pc = ToInt16(s.pc + 1 + getId(s))]
      [] cmd = OpLoop -> [s EXCEPT !.pc = ToInt16(s.pc + 1 - getId(s))]
      [] cmd = OpCall -> ExecCall(s, index)
      [] cmd = OpCallNative -> ExecCallNative(s, j)
      [] cmd = OpReturn -> ExecReturn(s, j)
      [] cmd = OpSetFrame -> ExecSetFrame(s, j)
      [] cmd \in {OpOr, OpXor, OpAnd} -> BinaryBits(s, cmd, j)
      [] cmd = OpNot -> setTop(top(s), -1 - topValue(s, j))
      [] cmd \in {OpLOr, OpLAnd} -> Logical(s, cmd, j)
      [] cmd = OpLNot -> setTop(top(s), BoolWord(topValue(s, j) = 0))
      [] cmd \in {OpLTInt, OpLEInt, OpEQInt, OpNEInt, OpGEInt, OpGTInt,
                  OpAddInt, OpSubInt, OpMulInt, OpDivInt} -> BinaryInt(s, cmd, j)
      [] cmd \in {OpLTFloat, OpLEFloat, OpEQFloat, OpNEFloat, OpGEFloat, OpGTFloat,
                  OpAddFloat, OpSubFloat, OpMulFloat, OpDivFloat} -> BinaryFloat(s, cmd, j)
      [] cmd = OpNegInt -> setTop(top(s), Neg32(topValue(s, j)))
      [] cmd = OpNegFloat -> setTop(top(s), j)
      [] cmd \in {OpPreIncInt, OpPreDecInt, OpPostIncInt, OpPostDecInt} -> IncDecInt(s, cmd, j)
      [] cmd \in {OpPreIncFloat, OpPreDecFloat, OpPostIncFloat, OpPostDecFloat} ->
            IncDecFloat(s, cmd, j)
      [] OTHER -> returnWith([s EXCEPT !.error = "InvalidOp"], -1)

\* the opcode byte at pc as execute splits it into cmd and index
fetchCmd(s) == LET b == getUInt8ROM(s.pc) IN IF b >= 128 THEN b - (b % 16) ELSE b
fetchIndex(s) == LET b == getUInt8ROM(s.pc) IN IF b >= 128 THEN b % 16 ELSE 0

\* the error check at the top of the loop
checkError(s) == IF s.stackError # "None" THEN [s EXCEPT !.error = s.stackError] ELSE s

\* one iteration of the while loop of execute
executeStep(s, j) ==
    LET s0 == checkError(s)
    IN  IF s0.error # "None"
        THEN returnWith([s0 EXCEPT !.errorAddr = ToInt16(s0.pc - 1)], -1)
        ELSE Dispatch(skipByte(s0), fetchCmd(s0), fetchIndex(s0), j)

(***************************************************************************)
(* Interpreter.cpp: Interpreter::init and Interpreter::loop up to the call *)
(* of execute.  halted is TRUE while execute is not running.               *)
(***************************************************************************)
NoWords == [a \in {} |-> 0]

\* the Interpreter as constructed
NewInterpreter ==
    [error |-> "None", errorAddr |-> -1, params |-> <<>>, paramsSize |-> 0,
     global |-> NoWords, globalSize |-> 0, pc |-> 0,
     stack |-> NoWords, size |-> 0, sp |-> 0, bp |-> 0, stackError |-> "None",
     numParams |-> 0, initStart |-> 0, loopStart |-> 0, codeOffset |-> 0,
     halted |-> TRUE, result |-> 0, ub |-> FALSE]

\* Stack::alloc; new uint32_t[size] is not initialised: every word is j
alloc(s, size, j) ==
    [s EXCEPT !.size = size, !.stack = [a \in 0 .. size - 1 |-> j],
              !.sp = 0, !.bp = 0, !.stackError = "None"]

\* the "Find command" loop of init
RECURSIVE findCommand(_, _, _)
findCommand(s, cmd, found) ==
    LET c == rom(s.codeOffset)
    IN  IF c = 0
        THEN [s |-> [s EXCEPT !.codeOffset = ToU16(@ + 1)], found |-> found]
        ELSE IF c = cmd
        THEN findCommand([s EXCEPT !.numParams = getUInt8ROM(s.codeOffset + 1),
                                   !.initStart = getUInt16ROM(s.codeOffset + 2),
                                   !.loopStart = getUInt16ROM(s.codeOffset + 4),
                                   !.codeOffset = ToU16(@ + 6)], cmd, TRUE)
        ELSE findCommand([s EXCEPT !.codeOffset = ToU16(@ + 6)], cmd, found)

\* init up to execute(_initStart); halted stays TRUE when init returns false early
init(s, cmd, buf, j) ==
    LET size == Len(buf)
        s1 == [s EXCEPT !.params = IF size <= ParamsSize THEN buf ELSE SubSeq(buf, 1, ParamsSize),
                        !.ub = @ \/ size > ParamsSize,
                        !.paramsSize = size, !.error = "None",
                        !.codeOffset = ToU16(ConstOffset + getUInt8ROM(4) * 4),
                        !.globalSize = getUInt8ROM(5),
                        !.global = [a \in 0 .. getUInt8ROM(5) - 1 |-> j]]
        f == findCommand(alloc(s1, getUInt8ROM(6), j), cmd, FALSE)
        s2 == [f.s EXCEPT !.initStart = ToU16(@ + f.s.codeOffset),
                          !.loopStart = ToU16(@ + f.s.codeOffset)]
    IN  IF ~f.found THEN [f.s EXCEPT !.error = "CmdNotFound", !.errorAddr = -1]
        ELSE IF s2.numParams # size THEN [s2 EXCEPT !.error = "WrongNumberOfArgs"]
        ELSE IF getUInt8ROM(s2.initStart) # OpSetFrame
        THEN [s2 EXCEPT !.error = "ExpectedSetFrame"]
        ELSE [push(s2, -1) EXCEPT !.pc = ToInt16(s2.initStart), !.halted = FALSE]

\* the end of init, after execute returned
initReturn(s) == IF s.error = "None" THEN [s EXCEPT !.error = s.stackError] ELSE s

\* loop up to execute(_loopStart)
loop(s) ==
    IF getUInt8ROM(s.loopStart) # OpSetFrame
    THEN [s EXCEPT !.error = "ExpectedSetFrame"]
    ELSE [push(s, -1) EXCEPT !.pc = ToInt16(s.loopStart), !.halted = FALSE]

(***************************************************************************)
(* Observation of a run.  frames, refTag and last are history variables:   *)
(* no operator of the interpreter reads them.                              *)
(***************************************************************************)
HostInitCall == 0 - 1
HostLoopCall == 0 - 2
ErrorExit == 0 - 3

NoTag == 0 - 1

Top(fs) == fs[Len(fs)]

\* the frame's saved slots hold what SetFrame stored and only one word lies above them
FrameIntact(s, f) ==
    /\ s.bp = f.bp
    /\ s.sp = f.bp + f.p + f.l + 3
    /\ InArray(s, s.sp - 1)
    /\ s.stack[f.bp + f.p + f.l] = f.retpc
    /\ s.stack[f.bp + f.p + f.l + 1] = f.callerBp

\* the frame record made when SetFrame executes in s (s after the opcode fetch)
NewFrame(s, j) ==
    [kind |-> IF last.cmd = OpCall THEN "call"
              ELSE IF last.cmd \in {HostInitCall, HostLoopCall} THEN "host" ELSE "other",
     callAt |-> last.pc,
     retpc |-> ToInt16(popValue(s, 1, j)),
     callerBp |-> s.bp,
     callSp |-> s.sp - 1,
     p |-> getP(s), l |-> getL(s),
     bp |-> s.sp - 1 - getP(s)]

FramesAfter(s, cmd, j) ==
    IF cmd = OpSetFrame THEN Append(frames, NewFrame(skipByte(s), j))
    ELSE IF cmd = OpReturn /\ frames # <<>> THEN SubSeq(frames, 1, Len(frames) - 1)
    ELSE frames

TagAt(a) == IF a \in DOMAIN refTag THEN refTag[a] ELSE NoTag

\* the instructions that do not write the word that is on top after them
KeepsTop == {OpPop, OpDrop, OpPopDeref, OpIf, OpElse, OpEndIf, OpJump, OpLoop}

\* s is the interpreter before the instruction, t after it, id the operand byte
TagsAfter(s, t, cmd, id) ==
    [a \in DOMAIN t.stack |->
        IF a >= t.sp THEN NoTag
        ELSE IF a = t.sp - 1 /\ cmd = OpPushRef
        THEN (IF id >= LocalStart THEN s.bp + (id % 64) ELSE NoTag)
        ELSE IF a = t.sp - 1 /\ cmd = OpPush /\ id >= LocalStart THEN TagAt(s.bp + (id % 64))
        ELSE IF a = t.sp - 1 /\ cmd = OpDup THEN TagAt(a - 1)
        ELSE IF cmd = OpPop /\ id >= LocalStart /\ a = s.bp + (id % 64) THEN TagAt(s.sp - 1)
        ELSE IF cmd = OpSwap /\ a = s.sp - 1 THEN TagAt(s.sp - 2)
        ELSE IF cmd = OpSwap /\ a = s.sp - 2 THEN TagAt(s.sp - 1)
        ELSE IF a = t.sp - 1 /\ cmd \notin KeepsTop THEN NoTag
        ELSE IF a < s.sp /\ a \in DOMAIN s.stack /\ t.stack[a] = s.stack[a] THEN TagAt(a)
        ELSE NoTag]

NoLast ==
    [cmd |-> ErrorExit, pc |-> 0, depth |-> 0, kind |-> "none", intact |-> FALSE,
     outer |-> FALSE, mode |-> "idle"]

\* what the step about to be taken from s dispatches
LastOf(s, cmd) ==
    [cmd |-> cmd, pc |-> s.pc, depth |-> Len(frames),
     kind |-> IF frames = <<>> THEN "none" ELSE Top(frames).kind,
     intact |-> frames # <<>> /\ FrameIntact(s, Top(frames)),
     outer |-> /\ cmd = OpReturn /\ Len(frames) = 1 /\ Top(frames).kind = "host"
               /\ Top(frames).bp = 0 /\ Top(frames).callerBp = 0
               /\ FrameIntact(s, Top(frames)),
     mode |-> mode]

Junk == {0, -559038737}

(***************************************************************************)
(* The host and the dispatch loop                                          *)
(***************************************************************************)
MaxLoops == 2
MaxInits == 1

Commands == {99, 100, 101, 102, 103}
\* no parameter, one parameter, and one byte more than _params holds
Buffers == {<<>>, <<1>>, [i \in 1 .. ParamsSize + 1 |-> i]}

HostInit(cmd, buf, j) ==
    /\ mode = "idle"
    /\ executable # <<>>
    /\ host.inits < MaxInits
    /\ LET s1 == init(vm, cmd, buf, j)
       IN  /\ vm' = s1
           /\ mode' = IF s1.halted THEN "idle" ELSE "init"
           /\ host' = [host EXCEPT !.inits = @ + 1,
                                   !.init = IF s1.halted THEN 0 ELSE @]
           /\ refTag' = [a \in DOMAIN s1.stack |-> NoTag]
    /\ frames' = <<>>
    /\ last' = [NoLast EXCEPT !.cmd = HostInitCall, !.mode = "init"]
    /\ UNCHANGED <<executable, src, cs>>

HostLoop ==
    /\ mode = "idle"
    /\ host.inits > 0
    /\ host.loops < MaxLoops
    /\ LET s1 == loop(vm)
       IN  /\ vm' = s1
           /\ mode' = IF s1.halted THEN "idle" ELSE "loop"
           /\ host' = [host EXCEPT !.loops = @ + 1,
                                   !.loop = IF s1.halted THEN 0 ELSE @,
                                   !.sp = vm.sp, !.bp = vm.bp]
    /\ frames' = <<>>
    /\ last' = [NoLast EXCEPT !.cmd = HostLoopCall, !.mode = "loop"]
    /\ UNCHANGED <<executable, refTag, src, cs>>

ExecuteStep(j) ==
    /\ mode # "idle"
    /\ LET s0 == checkError(vm)
           cmd == IF s0.error # "None" THEN ErrorExit ELSE fetchCmd(s0)
           s1 == executeStep(vm, j)
           s2 == IF s1.halted /\ mode = "init" THEN initReturn(s1) ELSE s1
       IN  /\ vm' = s2
           /\ mode' = IF s1.halted THEN "idle" ELSE mode
           /\ host' = IF ~s1.halted THEN host
                      ELSE IF mode = "init"
                      THEN [host EXCEPT !.init = BoolWord(s2.error = "None")]
                      ELSE [host EXCEPT !.loop = s1.result]
           /\ frames' = FramesAfter(s0, cmd, j)
           /\ refTag' = TagsAfter(s0, s2, cmd, getUInt8ROM(s0.pc + 1))
           /\ last' = LastOf(s0, cmd)
    /\ UNCHANGED <<executable, src, cs>>

(***************************************************************************)
(* Executable images, laid out as CompileEngine::emit lays them out        *)
(***************************************************************************)
RECURSIVE Flatten(_)
Flatten(ss) == IF ss = <<>> THEN <<>> ELSE Head(ss) \o Flatten(Tail(ss))

LittleEndian32(w) == <<ByteOf(w, 0), ByteOf(w, 1), ByteOf(w, 2), ByteOf(w, 3)>>

CommandEntry(c) ==
    <<c.cmd, c.count, c.initAddr % 256, (c.initAddr \div 256) % 256,
      c.loopAddr % 256, (c.loopAddr \div 256) % 256>>

Image(rom32, globalSize, stackSize, commands, rom8) ==
    <<97, 114, 108, 121, Len(rom32) % 256, globalSize % 256, stackSize % 256, 0>>
    \o [i \in 1 .. 4 * Len(rom32) |->
            LittleEndian32(rom32[((i - 1) \div 4) + 1])[((i - 1) % 4) + 1]]
    \o Flatten([i \in 1 .. Len(commands) |-> CommandEntry(commands[i])])
    \o <<0>>
    \o rom8

(***************************************************************************)
(* Hand assembled programs for the interpreter: an init function with one  *)
(* local that calls f with p arguments, f with p params and l locals and   *)
(* one of several bodies, g called by one of them, and a loop function.    *)
(***************************************************************************)
MaxParams == 2
MaxLocals == 2

AsmSetFrame(p, l) == <<OpSetFrame, p * 16 + l>>
AsmCall(targ) == <<OpCall + (targ \div 256), targ % 256>>
AsmPushS(k) == <<OpPushIntConstS + k>>
AsmCallNative(id) == <<OpCallNative, id>>

Bodies ==
    {"const", "param", "local", "deref", "store", "nest", "extra", "none", "drops", "ifelse",
     "invalid", "badaddr", "badcall", "minmax", "natparam", "natint", "initarray", "initlocal",
     "badlocal", "badstore", "conststore", "preinc", "predec", "postinc", "postdec",
     "preincmul", "incconst", "pushes", "offset", "index"}
ArgKinds == {"val", "ref"}

AsmArgs(p, kind) ==
    Flatten([i \in 1 .. p |-> IF i = 1 /\ kind = "ref" THEN <<OpPushRef, LocalStart>>
                                                      ELSE AsmPushS(3 + i)])

AsmMain(p, kind, fAddr) ==
    AsmSetFrame(0, 1) \o AsmPushS(9) \o <<OpPop, LocalStart>>
    \o AsmArgs(p, kind) \o AsmCall(fAddr) \o <<OpReturn>>

\* the bodies that increment or decrement the global 0 (l = 0) or the first
\* local (l > 0), which first holds 3 (p = 0), the largest (p = 1) or the
\* smallest (p = 2) int32_t
IncDecBodies == {"preinc", "predec", "postinc", "postdec", "preincmul"}
IncDecOp(body) ==
    CASE body \in {"preinc", "preincmul"} -> OpPreIncInt
      [] body = "predec" -> OpPreDecInt
      [] body = "postinc" -> OpPostIncInt
      [] body = "postdec" -> OpPostDecInt
AsmIncDec(body, p, l) ==
    LET id == IF l = 0 THEN GlobalStart ELSE LocalStart + p
    IN  (IF p = 0 THEN AsmPushS(3) ELSE <<OpPush, p>>)
        \o <<OpPop, id, OpPushRef, id, IncDecOp(body)>>
        \o (IF body = "preincmul" THEN AsmPushS(2) \o <<OpMulInt>> ELSE <<>>)

\* the references Offset and Index start from: the first global, the last
\* global and the last local
RefStart(p) ==
    CASE p = 0 -> GlobalStart
      [] p = 1 -> LocalStart - 1
      [] OTHER -> LocalStart + LocalSize - 1

AsmBody(body, p, l, gAddr) ==
    CASE body = "const" -> AsmPushS(5)
      [] body = "param" -> <<OpPush, LocalStart>>
      [] body = "local" -> AsmPushS(6) \o <<OpPop, LocalStart + p, OpPush, LocalStart + p>>
      [] body = "deref" -> <<OpPush, LocalStart, OpPushDeref>>
      [] body = "store" -> <<OpPush, LocalStart>> \o AsmPushS(8) \o <<OpPopDeref>> \o AsmPushS(1)
      [] body = "nest" -> <<OpPush, LocalStart>> \o AsmCall(gAddr)
      [] body = "extra" -> AsmPushS(1) \o AsmPushS(2)
      [] body = "none" -> <<>>
      [] body = "drops" -> [i \in 1 .. p + l + 4 |-> OpDrop]
      [] body = "ifelse" -> <<OpPush, LocalStart, OpLNot, OpIf, 1>> \o AsmPushS(1)
                            \o <<OpElse, 1>> \o AsmPushS(2) \o <<OpEndIf>>
      [] body = "invalid" -> AsmPushS(1) \o <<OpNone>>
      [] body = "badaddr" -> <<OpPush, GlobalStart + 5>>
      [] body = "badcall" -> AsmCall(1)
      [] body = "badlocal" -> <<OpPush, LocalStart + 9>>
      [] body = "badstore" -> AsmPushS(1) \o <<OpPop, GlobalStart + 5>> \o AsmPushS(1)
      [] body = "conststore" -> AsmPushS(1) \o <<OpPop, 0>> \o AsmPushS(1)
      [] body = "minmax" -> AsmPushS(3) \o AsmPushS(7) \o AsmCallNative(IdMaxInt)
                            \o AsmPushS(4) \o AsmPushS(9) \o AsmCallNative(IdMinInt)
                            \o <<OpAddInt>>
      [] body = "natparam" -> AsmPushS(p) \o AsmCallNative(IdParam)
      [] body = "natint" -> AsmPushS(5) \o AsmCallNative(IdInt)
      [] body = "initarray" -> <<OpPushIntConst, GlobalStart>> \o AsmPushS(p) \o AsmPushS(l)
                               \o AsmCallNative(IdInitArray)
      [] body = "initlocal" -> <<OpPushIntConst, LocalStart + p>> \o AsmPushS(p) \o AsmPushS(l)
                               \o AsmCallNative(IdInitArray)
      [] body \in IncDecBodies -> AsmIncDec(body, p, l)
      [] body = "incconst" -> <<OpPushRef, 0, OpPreIncInt>>
      [] body = "pushes" -> [i \in 1 .. 18 |-> OpPushIntConstS + 1]
      [] body = "offset" -> <<OpPushRef, RefStart(p), OpOffset + 7 * l + 1>>
      [] body = "index" -> <<OpPushRef, RefStart(p)>> \o AsmPushS(l + 1) \o <<OpIndex + 3>>

AsmG == AsmSetFrame(1, 1) \o <<OpPush, LocalStart>> \o AsmPushS(1) \o <<OpAddInt, OpReturn>>

AsmLoop == AsmSetFrame(0, 0) \o <<OpPush, 0, OpReturn>>

AsmProgram(p, l, kind, body) ==
    LET fAddr == Len(AsmMain(p, kind, 0))
        f0 == AsmSetFrame(p, l) \o AsmBody(body, p, l, 0) \o <<OpReturn>>
        gAddr == fAddr + Len(f0)
        f == AsmSetFrame(p, l) \o AsmBody(body, p, l, gAddr) \o <<OpReturn>>
        loopAddr == gAddr + Len(AsmG)
    IN  Image(IF body \in IncDecBodies THEN <<-2, MaxInt32, MinInt32>> ELSE <<-2>>, 1, 16,
              <<[cmd |-> 99, count |-> 0, initAddr |-> 0, loopAddr |-> loopAddr],
                [cmd |-> 100, count |-> 1, initAddr |-> loopAddr, loopAddr |-> fAddr],
                [cmd |-> 102, count |-> 0, initAddr |-> 0, loopAddr |-> 2],
                [cmd |-> 103, count |-> 0, initAddr |-> 2, loopAddr |-> 0]>>,
              AsmMain(p, kind, fAddr) \o f \o AsmG \o AsmLoop)

AsmPrograms ==
    {AsmProgram(p, l, kind, body) :
        p \in 0 .. MaxParams, l \in 0 .. MaxLocals, kind \in ArgKinds, body \in Bodies}

NotCalled == 0 - 1

NoHost ==
    [inits |-> 0, loops |-> 0, init |-> 0, loop |-> 0, sp |-> 0, bp |-> 0,
     compile |-> NotCalled, error |-> "None"]
NoSource == [k |-> "none"]
NoCompiler == [k |-> "none"]

InitVM ==
    /\ executable \in AsmPrograms
    /\ vm = NewInterpreter
    /\ mode = "idle"
    /\ host = NoHost
    /\ frames = <<>>
    /\ refTag = NoWords
    /\ last = NoLast
    /\ src = NoSource
    /\ cs = NoCompiler

NextVM ==
    \/ \E cmd \in Commands, buf \in Buffers, j \in Junk : HostInit(cmd, buf, j)
    \/ HostLoop
    \/ \E j \in Junk : ExecuteStep(j)

SpecVM == InitVM /\ [][NextVM]_vars

(***************************************************************************)
(* The Clover compiler (CompileEngine, CloverCompileEngine).               *)
(*                                                                         *)
(* The scanner is outside the model: a program is given as the tree of     *)
(* productions that the recursive descent walks, and every production is   *)
(* an operator from the CompileEngine object before it to the object after *)
(* it.  expect() throws: here it sets the field error, and a production    *)
(* entered with error set leaves the object alone.  The field ret holds    *)
(* what the last production returned.                                      *)
(***************************************************************************)
TypeNone == 0
TypeFloat == 1
TypeInt == 2
TypePtr == 5
StructTypeBase == 128

\* the ExprStack entries
IdEntry(name) == [t |-> "Id", name |-> name]
IntEntry(i) == [t |-> "Int", v |-> i]
FloatEntry(bits) == [t |-> "Float", v |-> bits]
RefEntry(type, ptr) == [t |-> "Ref", type |-> type, ptr |-> ptr]
ValueEntry(type) == [t |-> "Value", type |-> type]

Symbol(name, addr, type, storage, ptr, size) ==
    [name |-> name, addr |-> ToU8(addr), type |-> type, ptr |-> ptr,
     storage |-> storage, size |-> ToU8(size)]

Function(name, addr, type) ==
    [name |-> name, addr |-> ToInt16(addr), type |-> type, args |-> 0,
     locals |-> <<>>, native |-> FALSE, localSize |-> 0, localHighWaterMark |-> 0]

NewCompileEngine ==
    [error |-> "None", ret |-> FALSE, token |-> 1,
     defs |-> <<>>, globals |-> <<>>, functions |-> <<>>, commands |-> <<>>,
     structs |-> <<>>, rom32 |-> <<>>, rom8 |-> <<>>,
     nextMem |-> 0, localHighWaterMark |-> 0, globalSize |-> 0, inFunction |-> FALSE,
     exprStack |-> <<>>, jumpList |-> <<>>,
     stmtLog |-> {}, exprLog |-> {}, litLog |-> {}, jumpLog |-> {}, funLog |-> {},
     symLog |-> {}, callLog |-> {}, opLog |-> {}, siteLog |-> {}, loopLog |-> {}, emitLog |-> {}, asgLog |-> {},
     arithLog |-> {},
     calls |-> <<>>]

Ok(c) == c.error = "None"
Ret(c, v) == [c EXCEPT !.ret = v]

expect(c, passed, error) == IF Ok(c) /\ ~passed THEN [c EXCEPT !.error = error] ELSE c

\* index of the first entry of seq called name, 0 when there is none
RECURSIVE FindName(_, _, _)
FindName(seq, name, i) ==
    IF i > Len(seq) THEN 0
    ELSE IF seq[i].name = name THEN i
    ELSE FindName(seq, name, i + 1)

Or8(a, b) == BitOpLow("or", a, b, 8)

lastOp(c) == IF Len(c.rom8) > 0 THEN c.rom8[Len(c.rom8)] ELSE OpNone
romSize(c) == ToU16(Len(c.rom8))

addInt(c, i) == [c EXCEPT !.rom8 = Append(@, ToU8(i))]
\* ghost: an instruction of opcode op was emitted, with or without bits or-ed
\* into the opcode byte, followed by after bytes
noteEmit(c, op, indexed, after) ==
    [c EXCEPT !.emitLog = @ \cup {[op |-> op, indexed |-> indexed, after |-> after]}]
\* ghost: the caller appended n more bytes to the instruction it just emitted
noteTail(c, op, n) ==
    [c EXCEPT !.emitLog = {IF x.op = op /\ x.after = 0 THEN [x EXCEPT !.after = n] ELSE x : x \in @}]
addOp(c, op) == addInt(noteEmit(c, op, FALSE, 0), op)
\* ghost: the byte at rom8 offset at combines op with a 4-bit index
noteOp(c, at, op, index) ==
    [c EXCEPT !.opLog = {x \in @ : x.at # at} \cup {[at |-> at, op |-> op, index |-> index]}]

addOpSingleByteIndex(c, op, i) ==
    addInt(noteEmit(noteOp(c, Len(c.rom8), op, i % 16), op, TRUE, 0), Or8(op, i % 16))
addOpTarg(c, op, targ) ==
    addInt(addInt(noteEmit(noteOp(c, Len(c.rom8), op, (targ \div 64) % 4), op, TRUE, 1),
                  Or8(op, (targ \div 64) % 4)), targ)
addOpInt(c, op, i) == addInt(addInt(noteEmit(c, op, FALSE, 1), op), i)

\* CompileEngine.cpp: the table opDataFromOp searches, as pairs of Op and OpParams
opcodes ==
    {<<OpPush, "Id">>, <<OpPop, "Id">>, <<OpPushIntConst, "Const">>,
     <<OpPushIntConstS, "Index">>, <<OpPushRef, "Id">>, <<OpPushDeref, "None">>,
     <<OpPopDeref, "None">>, <<OpDup, "None">>, <<OpDrop, "None">>,
     <<OpSwap, "None">>, <<OpIf, "Sz">>, <<OpElse, "Sz">>,
     <<OpCall, "Target">>, <<OpCallNative, "Const">>, <<OpReturn, "None">>,
     <<OpSetFrame, "P_L">>, <<OpJump, "Sz">>, <<OpLoop, "Sz">>,
     <<OpOr, "None">>, <<OpXor, "None">>, <<OpAnd, "None">>,
     <<OpNot, "None">>, <<OpLOr, "None">>, <<OpLAnd, "None">>,
     <<OpLNot, "None">>, <<OpLTInt, "None">>, <<OpLTFloat, "None">>,
     <<OpLEInt, "None">>, <<OpLEFloat, "None">>, <<OpEQInt, "None">>,
     <<OpEQFloat, "None">>, <<OpNEInt, "None">>, <<OpNEFloat, "None">>,
     <<OpGEInt, "None">>, <<OpGEFloat, "None">>, <<OpGTInt, "None">>,
     <<OpGTFloat, "None">>, <<OpAddInt, "None">>, <<OpAddFloat, "None">>,
     <<OpSubInt, "None">>, <<OpSubFloat, "None">>, <<OpMulInt, "None">>,
     <<OpMulFloat, "None">>, <<OpDivInt, "None">>, <<OpDivFloat, "None">>,
     <<OpNegInt, "None">>, <<OpNegFloat, "None">>, <<OpPreIncInt, "None">>,
     <<OpPreIncFloat, "None">>, <<OpPreDecInt, "None">>, <<OpPreDecFloat, "None">>,
     <<OpPostIncInt, "None">>, <<OpPostIncFloat, "None">>, <<OpPostDecInt, "None">>,
     <<OpPostDecFloat, "None">>, <<OpOffset, "Index">>, <<OpIndex, "Index">>}

setRom8(c, addr, byte) == [c EXCEPT !.rom8[addr + 1] = byte]

\* Symbol::addr
symAddr(sym) ==
    CASE sym.storage = "None" -> 0
      [] sym.storage = "Const" -> ToU8(sym.addr + ConstStart)
      [] sym.storage = "Global" -> ToU8(sym.addr + GlobalStart)
      [] sym.storage = "Local" -> ToU8(sym.addr + LocalStart)

currentFunction(c) == c.functions[Len(c.functions)]
currentLocals(c) == currentFunction(c).locals

\* found, the symbol, and whether currentFunction() threw
findSymbol(c, s) ==
    LET g == FindName(c.globals, s, 1)
        l == FindName(currentLocals(c), s, 1)
    IN  IF g # 0 THEN [found |-> TRUE, sym |-> c.globals[g], error |-> "None"]
        ELSE IF c.functions = <<>> THEN [found |-> FALSE, error |-> "InternalError"]
        ELSE IF l # 0 THEN [found |-> TRUE, sym |-> currentLocals(c)[l], error |-> "None"]
        ELSE [found |-> FALSE, error |-> "None"]

findFunction(c, s) == FindName(c.functions, s, 1)

findDef(c, s) == FindName(c.defs, s, 1)

addGlobal(c, name, addr, type, storage, ptr, size) ==
    IF FindName(c.globals, name, 1) # 0 THEN Ret(c, FALSE)
    ELSE Ret([c EXCEPT !.globals = Append(@, Symbol(name, addr, type, storage, ptr, size))], TRUE)

\* Function::addArg, addLocal, numLocals, pruneLocals, localSize
addArg(c, name, type, ptr) ==
    LET f == currentFunction(c)
    IN  [c EXCEPT !.functions[Len(c.functions)] =
            [f EXCEPT !.locals = Append(@, Symbol(name, Len(f.locals), type, "Local", ptr, 1)),
                      !.args = ToU8(@ + 1)]]

addLocal(c, name, type, ptr, size) ==
    LET f == currentFunction(c)
        n == ToU8(f.localSize + size)
    IN  IF FindName(f.locals, name, 1) # 0 THEN Ret(c, FALSE)
        ELSE Ret([c EXCEPT !.functions[Len(c.functions)] =
                    [f EXCEPT !.locals = Append(@, Symbol(name, f.args + f.localSize, type,
                                                           "Local", ptr, size)),
                              !.localSize = n,
                              !.localHighWaterMark = IF n > @ THEN n ELSE @]], TRUE)

numLocals(c) == Len(currentLocals(c))

RECURSIVE pruneLocals(_, _)
pruneLocals(c, n) ==
    IF n <= 0 THEN c
    ELSE LET f == currentFunction(c)
             sym == f.locals[Len(f.locals)]
         IN  pruneLocals([c EXCEPT !.functions[Len(c.functions)] =
                            [f EXCEPT !.locals = SubSeq(@, 1, Len(@) - 1),
                                      !.localSize = ToU8(@ - sym.size)]], n - 1)

localSize(c) == currentFunction(c).localHighWaterMark

\* structFromType, elementSize: the size of type in words
elementSize(c, type) ==
    IF type < StructTypeBase THEN 1 ELSE Len(c.structs[type - StructTypeBase + 1].entries)

(***************************************************************************)
(* Constants pool                                                          *)
(***************************************************************************)
RECURSIVE Log2(_)
Log2(m) == IF m < 2 THEN 0 ELSE 1 + Log2(m \div 2)

\* floatToInt(float(i)) for an int32_t i: IEEE-754 binary32, round to nearest even
\* the exponent and fraction fields of q * 2^(e - 23), q below 2^24 but for
\* the carry of the rounding
FloatFields(e, q) ==
    IF q = 16777216 THEN (e + 1 + 127) * 8388608
    ELSE (e + 127) * 8388608 + (q - 8388608)

\* q + r / (2 * half), rounded to the nearest integer and to even on a tie
RoundEven(q, r, half) == IF r > half \/ (r = half /\ q % 2 = 1) THEN q + 1 ELSE q

\* the bits of the float nearest to m > 0, whose highest set bit is bit e
FloatOf(m, e) ==
    IF e <= 23 THEN FloatFields(e, m * 2^(23 - e))
    ELSE FloatFields(e, RoundEven(m \div 2^(e - 23), m % 2^(e - 23), 2^(e - 24)))

FloatBits(i) ==
    IF i = 0 THEN 0
    ELSE IF i = MinInt32 THEN (31 + 127) * 8388608 + MinInt32
    ELSE IF i < 0 THEN FloatOf(-i, Log2(-i)) + MinInt32
    ELSE FloatOf(i, Log2(i))

\* -f on the bits of a float
NegFloatBits(w) == IF w >= 0 THEN w + MinInt32 ELSE w - MinInt32

\* find_if over the pool: the first index holding w, 0 when there is none
FindWord(seq, w) ==
    LET at == {i \in 1 .. Len(seq) : seq[i] = w}
    IN  IF at = {} THEN 0 ELSE CHOOSE i \in at : \A k \in at : i <= k

\* findInt and findFloat: ret is the uint8_t they return
findInt(c, i) ==
    LET at == FindWord(c.rom32, i)
    IN  IF at # 0 THEN Ret(c, ToU8(at - 1))
        ELSE Ret([c EXCEPT !.rom32 = Append(@, i)], ToU8(Len(c.rom32)))

findFloat(c, bits) == findInt(c, bits)

(***************************************************************************)
(* bakeExpr                                                                *)
(***************************************************************************)
Back(c) == c.exprStack[Len(c.exprStack)]
popExpr(c) == [c EXCEPT !.exprStack = SubSeq(@, 1, Len(@) - 1)]
pushExpr(c, e) == [c EXCEPT !.exprStack = Append(@, e)]

\* ghost: what was emitted for the integer literal k, c0 before and c after it
noteLiteral(c0, c, k, matchingType) ==
    LET code == SubSeq(c.rom8, Len(c0.rom8) + 1, Len(c.rom8))
    IN  [c EXCEPT !.litLog = @ \cup
            {[k |-> k, matching |-> matchingType, code |-> code,
              size |-> Len(c.rom32),
              word |-> IF code[1] = OpPush /\ code[2] < Len(c.rom32)
                       THEN c.rom32[code[2] + 1] ELSE 0,
              added |-> Len(c.rom32) - Len(c0.rom32),
              held |-> \E j \in 1 .. Len(c0.rom32) :
                          c0.rom32[j] = IF matchingType = TypeFloat THEN FloatBits(k) ELSE k]}]

\* addOpInt(Op::Push, id) on the id findInt or findFloat returned
pushConst(c, type) == Ret(addOpInt(c, OpPush, c.ret), type)

bakeInt(c, i, matchingType) ==
    IF matchingType = TypeFloat THEN pushConst(findFloat(c, FloatBits(i)), TypeFloat)
    ELSE IF UnsignedLE(i, 15) THEN Ret(addOpSingleByteIndex(c, OpPushIntConstS, i), TypeInt)
    ELSE IF UnsignedLE(i, 255) THEN Ret(addOpInt(c, OpPushIntConst, i), TypeInt)
    ELSE pushConst(findInt(c, i), TypeInt)

\* ghost: the instruction op is about to be emitted for the symbol sym
noteSymbol(c, op, sym) ==
    [c EXCEPT !.symLog = @ \cup {[op |-> op, name |-> sym.name, storage |-> sym.storage,
                                  addr |-> sym.addr, id |-> symAddr(sym),
                                  function |-> IF c.inFunction THEN currentFunction(c).name
                                               ELSE "",
                                  local |-> c.inFunction
                                            /\ FindName(currentLocals(c), sym.name, 1) # 0,
                                  global |-> FindName(c.globals, sym.name, 1) # 0]}]

bakeRight(c, entry, matchingType) ==
    CASE entry.t = "Int" ->
            popExpr(noteLiteral(c, bakeInt(c, entry.v, matchingType), entry.v, matchingType))
      [] entry.t = "Float" ->
            popExpr(pushConst(findFloat(c, entry.v), TypeFloat))
      [] entry.t = "Id" ->
            LET f == findSymbol(c, entry.name)
                c1 == addOpInt(noteSymbol(c, OpPush, f.sym), OpPush, symAddr(f.sym))
            IN  IF f.error # "None" THEN expect(c, FALSE, f.error)
                ELSE IF ~f.found THEN expect(c, FALSE, "UndefinedIdentifier")
                ELSE IF f.sym.ptr /\ matchingType # TypePtr
                THEN popExpr(Ret(addOp(c1, OpPushDeref), f.sym.type))
                ELSE popExpr(Ret(c1, IF f.sym.ptr THEN TypePtr ELSE f.sym.type))
      [] entry.t = "Ref" ->
            IF ~entry.ptr THEN popExpr(Ret(addOp(c, OpPushDeref), entry.type))
            ELSE popExpr(Ret(c, TypePtr))
      [] entry.t = "Value" -> popExpr(Ret(c, entry.type))
      [] OTHER -> expect(c, FALSE, "InternalError")

\* structFromType(type, s) ? s.size() : 1, with its InternalError
bakeIndexOp(c, type) ==
    IF type >= StructTypeBase /\ type - StructTypeBase >= Len(c.structs)
    THEN expect(c, FALSE, "InternalError")
    ELSE Ret(addOpSingleByteIndex(c, OpIndex, elementSize(c, type)), type)

bakeIndex(c, entry) ==
    IF entry.t = "Ref" THEN bakeIndexOp(c, entry.type)
    ELSE IF entry.t # "Id" THEN expect(c, FALSE, "ExpectedIdentifier")
    ELSE LET f == findSymbol(c, entry.name)
         IN  IF f.error # "None" THEN expect(c, FALSE, f.error)
             ELSE IF ~f.found THEN expect(c, FALSE, "UndefinedIdentifier")
             ELSE IF f.sym.storage \notin {"Local", "Global"} THEN expect(c, FALSE, "ExpectedVar")
             ELSE bakeIndexOp(pushExpr(popExpr(c), RefEntry(f.sym.type, FALSE)), f.sym.type)

\* findStructElement inside: the index of the field entry.name of the struct
bakeOffset(c, entry) ==
    IF Len(c.exprStack) < 2 THEN expect(c, FALSE, "InternalError")
    ELSE LET ref == c.exprStack[Len(c.exprStack) - 1]
             c1 == IF ref.ptr THEN addOp(c, OpPushDeref) ELSE c
             si == ref.type - StructTypeBase + 1
             index == FindName(c.structs[si].entries, entry.name, 1)
             elementType == c.structs[si].entries[index].type
         IN  IF ref.t # "Ref" THEN expect(c, FALSE, "InternalError")
             ELSE IF ref.type < StructTypeBase THEN expect(c1, FALSE, "ExpectedStructType")
             ELSE IF si > Len(c.structs) THEN expect(c1, FALSE, "InternalError")
             ELSE IF index = 0 THEN expect(c1, FALSE, "InvalidStructId")
             ELSE Ret(addOpSingleByteIndex(
                        pushExpr(popExpr(popExpr(c1)), RefEntry(elementType, FALSE)),
                        OpOffset, index - 1), elementType)

bakeRef(c, entry, action, matchingType) ==
    IF entry.t = "Ref"
    THEN IF action = "Left"
         THEN IF entry.ptr /\ matchingType # TypePtr
              THEN popExpr(Ret(addOp(addOp(addOp(addOp(c, OpSwap), OpPushDeref), OpSwap),
                                     OpPopDeref), entry.type))
              ELSE popExpr(Ret(addOp(c, OpPopDeref),
                               IF entry.ptr THEN TypePtr ELSE entry.type))
         ELSE Ret(c, entry.type)
    ELSE IF entry.t # "Id" THEN expect(c, FALSE, "ExpectedIdentifier")
    ELSE LET f == findSymbol(c, entry.name)
         IN  IF f.error # "None" THEN expect(c, FALSE, f.error)
             ELSE IF ~f.found THEN expect(c, FALSE, "UndefinedIdentifier")
             ELSE Ret(addOpInt(pushExpr(popExpr(noteSymbol(c, OpPushRef, f.sym)),
                                        RefEntry(f.sym.type, f.sym.ptr)),
                               OpPushRef, symAddr(f.sym)),
                      IF f.sym.ptr THEN TypePtr ELSE f.sym.type)

bakeExpr(c, action, matchingType) ==
    IF ~Ok(c) THEN c
    ELSE IF c.exprStack = <<>> THEN expect(c, FALSE, "InternalError")
    ELSE CASE action = "Right" -> bakeRight(c, Back(c), matchingType)
           [] action = "Index" -> bakeIndex(c, Back(c))
           [] action = "Offset" -> bakeOffset(c, Back(c))
           [] action \in {"Left", "Ref"} -> bakeRef(c, Back(c), action, matchingType)
           [] OTHER -> popExpr(Ret(c, TypeNone))

(***************************************************************************)
(* Expressions.  e is the parse of the tokens ahead: the tree fixes the    *)
(* grouping that minPrec computes, so arithmeticExpression takes the tree  *)
(* in place of minPrec.                                                    *)
(***************************************************************************)
NoExpr == [k |-> "none"]

OpInfo(prec, intOp, floatOp, assign, resultType) ==
    [prec |-> prec, intOp |-> intOp, floatOp |-> floatOp, assign |-> assign,
     resultType |-> resultType]

opInfo(token) ==
    CASE token = "=" -> OpInfo(1, OpPop, OpPop, "Only", TypeNone)
      [] token = "+=" -> OpInfo(1, OpAddInt, OpAddFloat, "Op", TypeNone)
      [] token = "-=" -> OpInfo(1, OpSubInt, OpSubFloat, "Op", TypeNone)
      [] token = "*=" -> OpInfo(1, OpMulInt, OpMulFloat, "Op", TypeNone)
      [] token = "/=" -> OpInfo(1, OpDivInt, OpDivFloat, "Op", TypeNone)
      [] token = "&=" -> OpInfo(1, OpAnd, OpNone, "Op", TypeInt)
      [] token = "|=" -> OpInfo(1, OpOr, OpNone, "Op", TypeInt)
      [] token = "^=" -> OpInfo(1, OpXor, OpNone, "Op", TypeInt)
      [] token = "||" -> OpInfo(6, OpLOr, OpNone, "None", TypeInt)
      [] token = "&&" -> OpInfo(7, OpLAnd, OpNone, "None", TypeInt)
      [] token = "|" -> OpInfo(8, OpOr, OpNone, "None", TypeInt)
      [] token = "^" -> OpInfo(9, OpXor, OpNone, "None", TypeInt)
      [] token = "&" -> OpInfo(10, OpAnd, OpNone, "None", TypeInt)
      [] token = "==" -> OpInfo(11, OpEQInt, OpEQFloat, "None", TypeInt)
      [] token = "!=" -> OpInfo(11, OpNEInt, OpNEFloat, "None", TypeInt)
      [] token = "<" -> OpInfo(12, OpLTInt, OpLTFloat, "None", TypeInt)
      [] token = ">" -> OpInfo(12, OpGTInt, OpGTFloat, "None", TypeInt)
      [] token = ">=" -> OpInfo(12, OpGEInt, OpGEFloat, "None", TypeInt)
      [] token = "<=" -> OpInfo(12, OpLEInt, OpLEFloat, "None", TypeInt)
      [] token = "+" -> OpInfo(14, OpAddInt, OpAddFloat, "None", TypeNone)
      [] token = "-" -> OpInfo(14, OpSubInt, OpSubFloat, "None", TypeNone)
      [] token = "*" -> OpInfo(15, OpMulInt, OpMulFloat, "None", TypeNone)
      [] token = "/" -> OpInfo(15, OpDivInt, OpDivFloat, "None", TypeNone)

(***************************************************************************)
(* The calls of the recursive descent.  A production runs up to its first  *)
(* call of a production, and again after each such call returns: its       *)
(* operator takes the number i of calls that have returned.  The variables *)
(* a production keeps across the calls are in its record on c.calls.       *)
(***************************************************************************)
\* the call of production p on the tree e; "none" where the tokens ahead do
\* not make the production's caller call it
Call(p, e, arithType) == [p |-> p, e |-> e, at |-> arithType]

Enter(c, locals) == [c EXCEPT !.calls = Append(@, locals)]
Leave(c) == IF Ok(c) THEN [c EXCEPT !.calls = SubSeq(@, 1, Len(@) - 1)] ELSE c
Local(c) == c.calls[Len(c.calls)]
SetLocal(c, name, v) == IF Ok(c) THEN [c EXCEPT !.calls[Len(c.calls)][name] = v] ELSE c
Return(c, v) == IF Ok(c) THEN Ret(Leave(c), v) ELSE c

\* expect on the type the bakeExpr before left in ret
expectRet(c, types, error) == expect(c, c.ret \in types, error)

\* the step from c to c1, taken after i calls, was the last of its production
Returned(c, c1, i) == Len(c1.calls) = Len(c.calls) - (IF i = 0 THEN 0 ELSE 1)

primaryExpression(c, e, i) ==
    CASE e.k = "paren" ->
            IF i = 0 THEN Enter(c, [p |-> "primaryExpression"])
            ELSE Return(expect(c, c.ret, "ExpectedExpr"), TRUE)
      [] e.k = "id" ->
            LET d == findDef(c, e.name)
            IN  Ret(pushExpr(c, IF d # 0 THEN IntEntry(c.defs[d].value)
                                         ELSE IdEntry(e.name)), TRUE)
      [] e.k = "float" -> Ret(pushExpr(c, FloatEntry(e.v)), TRUE)
      [] e.k = "int" -> Ret(pushExpr(c, IntEntry(e.v)), TRUE)
      [] OTHER -> Ret(c, FALSE)

\* the turn of the loop of argumentList after the expression of argument i
argumentList(c, fun, i) ==
    LET c1 == expect(expect(c, c.ret, "ExpectedExpr"), fun.args >= i, "WrongNumberOfArgs")
        sym == fun.locals[i]
        t == IF sym.ptr THEN TypePtr ELSE sym.type
    IN  expectRet(bakeExpr(c1, "Right", t), {t}, "MismatchedType")

\* the op of the type bakeExpr left in ret, on the Value that replaces the
\* operand
typedOp(c, type, intOp, floatOp) ==
    IF type = TypeFloat THEN addOp(c, floatOp)
    ELSE addOp(expect(c, type = TypeInt, "MismatchedType"), intOp)

incDecOpKeepRef(c, intOp, floatOp) ==
    IF ~Ok(c) THEN c
    ELSE typedOp(pushExpr(c, ValueEntry(c.ret)), c.ret, intOp, floatOp)

incDecOp(c, intOp, floatOp) ==
    IF ~Ok(c) THEN c
    ELSE typedOp(pushExpr(popExpr(c), ValueEntry(c.ret)), c.ret, intOp, floatOp)

incDecKeepRef(c, intOp, floatOp) ==
    incDecOpKeepRef(bakeExpr(c, "Ref", TypeNone), intOp, floatOp)

incDec(c, intOp, floatOp) == incDecOp(bakeExpr(c, "Ref", TypeNone), intOp, floatOp)

\* the end of a call, after argumentList: c holds the function number
\* ghost: a Call of the function at entry target is about to be emitted
noteCall(c, target) ==
    [c EXCEPT !.callLog = @ \cup {[at |-> Len(c.rom8), target |-> target]}]

callFunction(c, e) ==
    LET fun == c.functions[Local(c).fi]
        c2 == expect(c, fun.args = Len(e.args), "WrongNumberOfArgs")
        c3 == pushExpr(popExpr(c2), ValueEntry(fun.type))
    IN  IF ~Ok(c2) THEN c2
        ELSE IF fun.native THEN Return(addOpInt(c3, OpCallNative, ToU16(fun.addr)), TRUE)
        ELSE Return(addOpTarg(noteCall(c3, fun.addr), OpCall, ToU16(fun.addr)), TRUE)

postfixExpression(c, e, i) ==
    CASE e.k = "call" ->
            LET isId == c.exprStack # <<>> /\ Back(c).t = "Id"
                fi == IF isId THEN findFunction(c, Back(c).name) ELSE 0
            IN  CASE i = 0 -> Enter(c, [fi |-> 0])
                  [] i = 1 /\ e.args # <<>> ->
                        SetLocal(expect(expect(c, isId, "Exception"), fi # 0,
                                        "ExpectedFunction"), "fi", fi)
                  [] i = 1 /\ e.args = <<>> ->
                        callFunction(SetLocal(expect(expect(c, isId, "Exception"), fi # 0,
                                                     "ExpectedFunction"), "fi", fi), e)
                  [] i > 1 /\ i <= Len(e.args) ->
                        argumentList(c, c.functions[Local(c).fi], i - 1)
                  [] OTHER ->
                        callFunction(argumentList(c, c.functions[Local(c).fi], i - 1), e)
      [] e.k = "index" ->
            LET c4 == expectRet(bakeExpr(expect(c, c.ret, "ExpectedExpr"), "Right",
                                         TypeNone), {TypeInt}, "WrongType")
            IN  CASE i = 0 -> Enter(c, [p |-> "postfixExpression"])
                  [] i = 1 -> bakeExpr(c, "Ref", TypeNone)
                  [] OTHER -> Return(bakeExpr(c4, "Index", TypeNone), TRUE)
      [] e.k = "dot" ->
            LET c2 == pushExpr(bakeExpr(c, "Ref", TypeNone), IdEntry(e.name))
            IN  IF i = 0 THEN Enter(c, [p |-> "postfixExpression"])
                ELSE Return(bakeExpr(c2, "Offset", TypeNone), TRUE)
      [] e.k = "post" ->
            IF i = 0 THEN Enter(c, [p |-> "postfixExpression"])
            ELSE IF e.op = "++" THEN Return(incDec(c, OpPostIncInt, OpPostIncFloat), TRUE)
            ELSE Return(incDec(c, OpPostDecInt, OpPostDecFloat), TRUE)

\* -i, ~i, !i on the literal i
foldInt(token, i) ==
    CASE token = "-" -> Neg32(i)
      [] token = "~" -> (0 - 1) - i
      [] token = "!" -> BoolWord(i = 0)

\* &x on the Ref bakeExpr left
addressOf(c) == IF Ok(c) THEN pushExpr(popExpr(c), RefEntry(c.ret, TRUE)) ELSE c

\* -x, ~x, !x on the value bakeExpr left
unaryValue(c, token) ==
    IF ~Ok(c) THEN c
    ELSE IF token = "-"
    THEN IF c.ret = TypeFloat THEN addOp(pushExpr(c, ValueEntry(c.ret)), OpNegFloat)
         ELSE addOp(expect(pushExpr(c, ValueEntry(c.ret)), c.ret = TypeInt,
                           "MismatchedType"), OpNegInt)
    ELSE addOp(expect(pushExpr(c, ValueEntry(c.ret)), c.ret = TypeInt, "WrongType"),
               IF token = "~" THEN OpNot ELSE OpLNot)

unaryOperator(c, token) ==
    CASE token = "&" -> addressOf(bakeExpr(c, "Ref", TypeNone))
      [] token = "++" -> incDec(c, OpPreIncInt, OpPreIncFloat)
      [] token = "--" -> incDec(c, OpPreDecInt, OpPreDecFloat)
      [] OTHER ->
            IF c.exprStack = <<>> THEN expect(c, FALSE, "InternalError")
            ELSE IF Back(c).t = "Float" /\ token = "-"
            THEN pushExpr(popExpr(c), FloatEntry(NegFloatBits(Back(c).v)))
            ELSE IF Back(c).t = "Int"
            THEN pushExpr(popExpr(c), IntEntry(foldInt(token, Back(c).v)))
            ELSE unaryValue(bakeExpr(c, "Right", TypeNone), token)

unaryExpression(c, e, i) ==
    LET c1 == expect(c, c.ret, "ExpectedExpr")
    IN  IF i = 0 THEN Enter(c, [p |-> "unaryExpression"])
        ELSE IF Ok(c1) THEN Return(unaryOperator(c1, e.op), TRUE)
        ELSE c1

\* leftOperand that reads the variable through the reference without keeping it
leftOperandNoDup(c, info) ==
    SetLocal(IF info.assign = "Op" /\ Ok(c) THEN addOp(c, OpPushDeref) ELSE c,
             "leftType", c.ret)

\* the left operand, c after its bakeExpr: Dup and PushDeref for op=
leftOperand(c, info) ==
    SetLocal(IF info.assign = "Op" /\ Ok(c) THEN addOp(addOp(c, OpDup), OpPushDeref) ELSE c,
             "leftType", c.ret)

\* the operator, c after the bakeExpr of its right operand
rightOperand(c, info) ==
    LET leftType == Local(c).leftType
        rightType == c.ret
        op == IF leftType = TypeInt THEN info.intOp ELSE info.floatOp
        c6 == expect(c, leftType = rightType, "MismatchedType")
        c7 == CASE info.assign = "Only" -> c
                [] info.assign = "Op" -> IF Ok(c6) THEN addOp(c6, op) ELSE c6
                [] info.assign = "None" ->
                     IF Ok(c6) /\ op # OpNone
                     THEN pushExpr(addOp(c6, op),
                                   ValueEntry(IF info.resultType # TypeNone
                                              THEN info.resultType ELSE leftType))
                     ELSE expect(c6, FALSE, "WrongType")
    IN  IF ~Ok(c) THEN c
        ELSE IF info.assign = "None" THEN Return(c7, TRUE)
        ELSE Return(expectRet(bakeExpr(c7, "Left", rightType), {rightType},
                              "MismatchedType"), TRUE)

\* ghost: the code of the compound assignment token, c before its operator is
\* emitted and c1 after its bakeExpr(Left)
noteAssign(c, c1, token) ==
    IF Ok(c) /\ Ok(c1) /\ opInfo(token).assign = "Op"
    THEN [c1 EXCEPT !.asgLog = @ \cup
            {[token |-> token, start |-> Local(c).start, opAt |-> Len(c.rom8),
              end |-> Len(c1.rom8), depth |-> Local(c).depth,
              after |-> Len(c1.exprStack)]}]
    ELSE c1

\* ghost: the operator byte emitted between c, which has the right operand
\* baked, and c1, with the types of the two operands
noteArith(c, c1, info) ==
    IF Ok(c) /\ info.assign # "Only" /\ Len(c1.rom8) > Len(c.rom8)
    THEN [c1 EXCEPT !.arithLog = @ \cup
            {[left |-> Local(c).leftType, right |-> c.ret, op |-> c1.rom8[Len(c.rom8) + 1],
              intOp |-> info.intOp, floatOp |-> info.floatOp, assign |-> info.assign]}]
    ELSE c1

\* one turn of the while loop of arithmeticExpression, on the operator e.op:
\* i = 1 has the left operand on the stack, i = 2 the right operand too
operatorLoop(c, e, arithType, i) ==
    LET info == opInfo(e.op)
        c1 == expect(c, ~(arithType # "Assign" /\ info.assign # "None"),
                     "AssignmentNotAllowedHere")
        cr == bakeExpr(expect(c, c.ret, "ExpectedExpr"), "Right", Local(c).leftType)
    IN  CASE i = 0 -> Enter(c, [leftType |-> TypeNone, start |-> 0, depth |-> 0])
          [] i = 1 -> IF c.ret = TRUE
                      THEN leftOperand(bakeExpr(SetLocal(SetLocal(c1, "start", Len(c.rom8)),
                                                         "depth", Len(c.exprStack)),
                                                IF info.assign # "None" THEN "Ref"
                                                ELSE "Right", TypeNone), info)
                      ELSE Leave(c)
          [] OTHER -> noteAssign(cr, noteArith(cr, rightOperand(cr, info), info), e.op)

\* an assignment operator occurs in e
RECURSIVE HasAssignment(_)
HasAssignment(e) ==
    CASE e.k = "bin" -> opInfo(e.op).assign # "None" \/ HasAssignment(e.l) \/ HasAssignment(e.r)
      [] e.k \in {"paren", "un"} -> HasAssignment(e.e)
      [] e.k = "call" -> \E i \in 1 .. Len(e.args) : HasAssignment(e.args[i])
      [] e.k = "index" -> HasAssignment(e.a) \/ HasAssignment(e.i)
      [] e.k \in {"dot", "post"} -> HasAssignment(e.a)
      [] OTHER -> FALSE

arithmeticExpression(c, e, arithType, i) ==
    IF i = 0 THEN Enter(c, [before |-> Len(c.exprStack)])
    ELSE IF c.ret = TRUE /\ ~HasAssignment(e)
    THEN Leave([c EXCEPT !.exprLog = @ \cup
                  {[k |-> e.k, before |-> Local(c).before, after |-> Len(c.exprStack)]}])
    ELSE Leave(c)

(***************************************************************************)
(* Jump contexts                                                           *)
(***************************************************************************)
JumpEntry(type, addr) == [type |-> type, addr |-> addr]

enterJumpContext(c) == IF Ok(c) THEN [c EXCEPT !.jumpList = Append(@, <<>>)] ELSE c

\* addJumpEntry that files the entry with the outermost context
addJumpEntryOutermost(c, op, type) ==
    IF ~Ok(c) THEN c
    ELSE IF c.jumpList = <<>> THEN expect(c, FALSE, "InternalError")
    ELSE [addOpTarg(c, op, 0) EXCEPT
            !.jumpList[1] = Append(@, JumpEntry(type, ToU16(Len(c.rom8))))]

addJumpEntry(c, op, type) ==
    IF ~Ok(c) THEN c
    ELSE IF c.jumpList = <<>> THEN expect(c, FALSE, "InternalError")
    ELSE [addOpTarg(c, op, 0) EXCEPT
            !.jumpList[Len(c.jumpList)] = Append(@, JumpEntry(type, ToU16(Len(c.rom8))))]

\* _rom8[addr] |= (offset >> 8) & 0x0f; _rom8[addr + 1] = uint8_t(offset)
patchTarg(c, addr, offset) ==
    setRom8(setRom8(noteOp(c, addr, c.rom8[addr + 1], (offset \div 256) % 16),
                    addr, Or8(c.rom8[addr + 1], (offset \div 256) % 16)),
            addr + 1, ToU8(offset))

\* ghost: the operand at addr was patched to reach label
noteJump(c, stmt, type, addr, label) ==
    [c EXCEPT !.jumpLog = @ \cup
        {[stmt |-> stmt, type |-> type, addr |-> addr, label |-> label,
          depth |-> Len(c.jumpList)]}]

RECURSIVE resolveJumps(_, _, _, _, _, _, _)
resolveJumps(c, stmt, entries, i, startAddr, contAddr, breakAddr) ==
    IF ~Ok(c) \/ i > Len(entries) THEN c
    ELSE LET it == entries[i]
             addr == CASE it.type = "Start" -> startAddr
                       [] it.type = "Continue" -> contAddr
                       [] it.type = "Break" -> breakAddr
             offset == ToInt16(ToInt16(addr) - ToInt16(it.addr) - 2)
         IN  IF it.addr >= breakAddr THEN expect(c, FALSE, "InternalError")
             ELSE IF c.rom8[it.addr + 2] # 0 THEN expect(c, FALSE, "InternalError")
             ELSE resolveJumps(noteJump(patchTarg(c, it.addr, offset), stmt, it.type,
                                        it.addr, addr),
                               stmt, entries, i + 1, startAddr, contAddr, breakAddr)

\* ghost: the loop statement entered with jdepth jump contexts leaves c, its
\* code is the bytes from startAddr up to breakAddr
noteLoop(c, stmt, jdepth, startAddr, contAddr, breakAddr) ==
    IF ~Ok(c) THEN c
    ELSE [c EXCEPT !.loopLog = @ \cup
            {[stmt |-> stmt, start |-> startAddr, cont |-> contAddr, brk |-> breakAddr,
              before |-> jdepth, after |-> Len(c.jumpList)]}]

exitJumpContext(c, stmt, startAddr, contAddr, breakAddr) ==
    IF ~Ok(c) THEN c
    ELSE IF c.jumpList = <<>> THEN expect(c, FALSE, "InternalError")
    ELSE LET c1 == resolveJumps(c, stmt, c.jumpList[Len(c.jumpList)], 1,
                                startAddr, contAddr, breakAddr)
         IN  IF Ok(c1)
             THEN noteLoop([c1 EXCEPT !.jumpList = SubSeq(@, 1, Len(@) - 1)], stmt,
                           Local(c).jdepth, startAddr, contAddr, breakAddr)
             ELSE c1

(***************************************************************************)
(* Statements                                                              *)
(***************************************************************************)
\* the initializer of var and of the declaration in for, after its expression
initializer(c, type) ==
    expectRet(bakeExpr(expectRet(bakeExpr(expect(c, c.ret, "ExpectedExpr"), "Right", type),
                                 {type}, "WrongType"), "Left", type),
              {type}, "MismatchedType")

\* the declaration of v, up to the expression of its initializer
var(c, type, isPointer, v) ==
    LET size == v.size * elementSize(c, type)
        c1 == IF c.inFunction
              THEN LET a == addLocal(c, v.name, type, isPointer, size)
                   IN  expect(a, a.ret, "DuplicateIdentifier")
              ELSE LET a == addGlobal(c, v.name, c.nextMem, type, "Global", isPointer, size)
                       b == expect(expect(a, a.ret, "DuplicateIdentifier"),
                                   c.nextMem + size <= LocalStart - GlobalStart, "TooManyVars")
                   IN  IF Ok(b) THEN [b EXCEPT !.globalSize = ToU16(c.nextMem + size)] ELSE b
        c2 == IF Ok(c1) THEN [c1 EXCEPT !.nextMem = ToU16(@ + size)] ELSE c1
        c3 == expect(c2, type \in {TypeInt, TypeFloat}, "InitializerNotAllowed")
    IN  IF ~Ok(c) THEN c
        ELSE IF v.ini = NoExpr THEN c2
        ELSE bakeExpr(pushExpr(c3, IdEntry(v.name)), "Ref", TypeNone)

\* the next declarator, or the end of the statement after the last
nextVar(c, st, i) ==
    IF i < Len(st.vars) THEN var(c, st.type, st.ptr, st.vars[i + 1]) ELSE Return(c, TRUE)

\* i declarators are done, but for the initializer of the i-th
varStatement(c, st, i) ==
    CASE i = 0 -> nextVar(Enter(c, [p |-> "varStatement"]), st, i)
      [] i > 0 /\ st.vars[i].ini # NoExpr -> nextVar(initializer(c, st.type), st, i)
      [] OTHER -> nextVar(c, st, i)

compoundStatement(c, st, i) ==
    LET c0 == IF i = 0
              THEN Enter(c, [n |-> IF c.inFunction THEN numLocals(c) ELSE 0])
              ELSE c
    IN  IF i < Len(st.body) THEN c0
        ELSE IF c0.inFunction
        THEN Return(pruneLocals(c0, numLocals(c0) - Local(c0).n), TRUE)
        ELSE Return(c0, TRUE)

\* uint16_t name = _rom8.size()
markAddr(c, name) == SetLocal(c, name, ToU16(Len(c.rom8)))

ifStatement(c, st, i) ==
    LET c2 == expectRet(bakeExpr(c, "Right", TypeNone), {TypeInt}, "WrongType")
        ifJumpAddr == Local(c).ifJumpAddr
        elseJumpAddr == Local(c).elseJumpAddr
        c5 == noteJump(patchTarg(c, elseJumpAddr, ToU16(Len(c.rom8) - elseJumpAddr - 2)),
                       "if", "Else", elseJumpAddr, Len(c.rom8))
        ifTargetAddr == IF st.else = NoExpr THEN Len(c.rom8) ELSE elseJumpAddr + 2
        c6 == IF st.else = NoExpr THEN c ELSE c5
    IN  CASE i = 0 -> Enter(c, [ifJumpAddr |-> 0, elseJumpAddr |-> 0])
          [] i = 1 -> addOpTarg(markAddr(c2, "ifJumpAddr"), OpIf, 0)
          [] i = 2 -> IF st.else = NoExpr THEN c
                      ELSE addOpTarg(markAddr(c, "elseJumpAddr"), OpJump, 0)
          [] OTHER -> Return(noteJump(patchTarg(c6, ifJumpAddr,
                                                ToU16(ifTargetAddr - ifJumpAddr - 2)),
                                      "if", "If", ifJumpAddr, ifTargetAddr), TRUE)

\* the declaration or assignment that opens for, up to its expression
forInit(c, fi) ==
    LET c1 == expect(expect(c, fi.type \in {TypeInt, TypeFloat}, "WrongType"),
                     c.inFunction, "InternalError")
        a == addLocal(c1, fi.name, fi.type, FALSE, 1)
        c2 == expect(a, a.ret, "DuplicateIdentifier")
    IN  IF fi.k # "decl" \/ ~Ok(c) THEN c
        ELSE IF ~Ok(c1) THEN c1
        ELSE IF ~Ok(c2) THEN c2
        ELSE bakeExpr(pushExpr([c2 EXCEPT !.nextMem = ToU16(@ + 1)], IdEntry(fi.name)),
                      "Ref", TypeNone)

forStatement(c, st, i) ==
    LET b1 == CASE st.ini.k = "none" -> c
                [] st.ini.k = "decl" -> initializer(c, st.ini.type)
                [] OTHER -> expect(c, c.ret = TRUE, "ExpectedExpr")
        startAddr == Local(c).startAddr
        e2 == IF st.cond = NoExpr THEN c
              ELSE addJumpEntry(expectRet(bakeExpr(c, "Right", TypeNone), {TypeInt},
                                          "WrongType"), OpIf, "Break")
        iterAddr == Local(c).iterAddr
        f1 == expect(c, Len(c.exprStack) = 1, "InternalError")
        f2 == IF Ok(f1) THEN addOp(popExpr(f1), OpDrop) ELSE f1
        iterBuf == Local(c).iterBuf
        contAddr == IF Len(iterBuf) > 0 THEN ToU16(Len(c.rom8)) ELSE startAddr
        g1 == addJumpEntry([c EXCEPT !.rom8 = @ \o iterBuf], OpJump, "Start")
    IN  CASE i = 0 -> forInit(Enter(c, [startAddr |-> 0, iterAddr |-> 0, iterBuf |-> <<>>,
                                        jdepth |-> Len(c.jumpList)]),
                              st.ini)
          [] i = 1 -> markAddr(enterJumpContext(b1), "startAddr")
          [] i = 2 -> markAddr(e2, "iterAddr")
          [] i = 3 -> IF st.iter = NoExpr \/ ~Ok(f2) THEN IF st.iter = NoExpr THEN c ELSE f2
                      ELSE SetLocal([f2 EXCEPT !.rom8 = SubSeq(@, 1, iterAddr)], "iterBuf",
                                    SubSeq(f2.rom8, iterAddr + 1, Len(f2.rom8)))
          [] OTHER -> Return(exitJumpContext(g1, "for", startAddr, contAddr,
                                             ToU16(Len(g1.rom8))), TRUE)

whileStatement(c, st, i) ==
    LET c1 == enterJumpContext(c)
        loopAddr == Local(c).loopAddr
        c4 == addJumpEntry(c, OpJump, "Continue")
    IN  CASE i = 0 -> Enter(c1, [loopAddr |-> ToU16(Len(c1.rom8)),
                                 jdepth |-> Len(c.jumpList)])
          [] i = 1 -> addJumpEntry(expectRet(bakeExpr(c, "Right", TypeNone), {TypeInt},
                                             "WrongType"), OpIf, "Break")
          [] OTHER -> Return(exitJumpContext(c4, "while", loopAddr, loopAddr,
                                             ToU16(Len(c4.rom8))), TRUE)

loopStatement(c, st, i) ==
    LET c1 == enterJumpContext(c)
        loopAddr == Local(c).loopAddr
        c2 == addJumpEntry(c, OpJump, "Continue")
    IN  IF i = 0 THEN Enter(c1, [loopAddr |-> ToU16(Len(c1.rom8)),
                                 jdepth |-> Len(c.jumpList)])
        ELSE Return(exitJumpContext(c2, "loop", loopAddr, loopAddr, ToU16(Len(c2.rom8))),
                    TRUE)

addReturn(c) == IF Ok(c) THEN Return(addOp(c, OpReturn), TRUE) ELSE c

returnStatement(c, st, i) ==
    CASE i = 0 -> Enter(c, [p |-> "returnStatement"])
      [] i = 1 /\ c.ret = TRUE ->
            addReturn(expectRet(bakeExpr(c, "Right", TypeNone), {currentFunction(c).type},
                                "MismatchedType"))
      [] OTHER ->
            addReturn(addOpSingleByteIndex(
                          expect(c, currentFunction(c).type = TypeNone, "MismatchedType"),
                          OpPushIntConstS, 0))

\* ghost: the break or continue statement compiled from c into c1 is the
\* jump at the byte where c ended
noteSite(c, c1, type) ==
    IF ~Ok(c1) THEN c1
    ELSE [c1 EXCEPT !.siteLog = @ \cup {[addr |-> Len(c.rom8), type |-> type]}]

jumpStatement(c, st) ==
    Ret(noteSite(c, addJumpEntry(expect(c, c.jumpList # <<>>, "OnlyAllowedInLoop"), OpJump,
                                 IF st.k = "break" THEN "Break" ELSE "Continue"),
                 IF st.k = "break" THEN "Break" ELSE "Continue"), TRUE)

\* for (auto it : str) addInt(uint8_t(it))
addInts(c, bytes) == [c EXCEPT !.rom8 = @ \o [k \in 1 .. Len(bytes) |-> ToU8(bytes[k])]]

\* the Log op and the string, after the last argument
addLog(c, st, i) ==
    IF ~Ok(c) \/ i < Len(st.args) THEN c
    ELSE Return(noteTail(addInts(addInt(addOpSingleByteIndex(c, OpLog, Len(st.args)),
                                        Len(st.str)), st.str), OpLog, 1 + Len(st.str)), TRUE)

\* i arguments are on the stack
logStatement(c, st, i) ==
    IF i = 0
    THEN addLog(Enter(expect(c, Len(st.str) < 256, "StringTooLong"), [p |-> "logStatement"]),
                st, i)
    ELSE addLog(expectRet(bakeExpr(expect(expect(c, c.ret, "ExpectedExpr"), i < 16,
                                          "TooManyVars"), "Right", TypeNone),
                          {TypeFloat, TypeInt}, "WrongType"), st, i)

expressionStatement(c, st, i) ==
    LET c2 == expect(c, Len(c.exprStack) = 1, "InternalError")
    IN  IF i = 0 THEN Enter(c, [p |-> "expressionStatement"])
        ELSE IF c.ret # TRUE \/ c.exprStack = <<>> THEN Leave(c)
        ELSE IF Ok(c2) THEN Return(addOp(popExpr(c2), OpDrop), TRUE)
        ELSE c2

\* ghost: the expression stack a statement that returned true leaves
noteStatement(c, c1, st, i) ==
    IF Ok(c1) /\ Returned(c, c1, i) /\ c1.ret = TRUE /\ c1.inFunction
    THEN [c1 EXCEPT !.stmtLog = @ \cup {[k |-> st.k, after |-> Len(c1.exprStack)]}]
    ELSE c1

statement(c, st, i) ==
    noteStatement(c,
                  CASE st.k = "block" -> compoundStatement(c, st, i)
                    [] st.k = "if" -> ifStatement(c, st, i)
                    [] st.k = "for" -> forStatement(c, st, i)
                    [] st.k = "while" -> whileStatement(c, st, i)
                    [] st.k = "loop" -> loopStatement(c, st, i)
                    [] st.k = "return" -> returnStatement(c, st, i)
                    [] st.k \in {"break", "continue"} -> jumpStatement(c, st)
                    [] st.k = "log" -> logStatement(c, st, i)
                    [] st.k = "var" -> varStatement(c, st, i)
                    [] st.k = "expr" -> expressionStatement(c, st, i)
                    [] OTHER -> Ret(c, FALSE),
                  st, i)

(***************************************************************************)
(* Elements                                                                *)
(***************************************************************************)
\* value(i, t) on an optional minus and an integer token
value(v, t) ==
    LET i == IF v.neg THEN Neg32(v.val) ELSE v.val
    IN  IF t = TypeFloat THEN FloatBits(i) ELSE i

constant(c, el) ==
    LET c1 == expect(c, Len(c.rom32) < ConstSize, "TooManyConstants")
    IN  IF ~Ok(c1) THEN c1
        ELSE Ret([c1 EXCEPT !.globals = Append(@, Symbol(el.name, Len(c.rom32), el.type,
                                                         "Const", FALSE, 1)),
                            !.rom32 = Append(@, value(el.v, el.type))], TRUE)

\* while (value(val, t)) _rom32.push_back(val)
values(c, t, vals) ==
    Ret([c EXCEPT !.rom32 = @ \o [i \in 1 .. Len(vals) |-> value(vals[i], t)]],
        Len(vals) > 0)

table(c, el) ==
    LET a == addGlobal(c, el.name, Len(c.rom32), el.type, "Const", FALSE, 1)
        c1 == expect(a, a.ret, "DuplicateIdentifier")
    IN  IF ~Ok(c1) THEN c1 ELSE Ret(values(c1, el.type, el.vals), TRUE)

\* struct id { structEntry ... }
strucT(c, el) ==
    Ret([c EXCEPT !.structs = Append(@, [name |-> el.name, entries |-> el.entries])], TRUE)

RECURSIVE formalParameterList(_, _, _)
formalParameterList(c, params, i) ==
    IF i > Len(params) THEN Ret(c, TRUE)
    ELSE formalParameterList(addArg(c, params[i].name, params[i].type, params[i].ptr),
                             params, i + 1)

\* function type id ( formalParameterList ) {, up to the first statement
functionStart(c, el) ==
    LET c1 == [c EXCEPT !.nextMem = 0,
                        !.functions = Append(@, Function(el.name, Len(c.rom8), el.type)),
                        !.inFunction = TRUE]
        c2 == formalParameterList(c1, el.params, 1)
        c3 == addOpSingleByteIndex(c2, OpSetFrame, currentFunction(c2).args)
        c4 == noteTail(addInt(c3, 0), OpSetFrame, 1)
    IN  Enter(c4, [addr |-> Len(c.rom8), args |-> currentFunction(c2).args,
                   localsIndex |-> Len(c3.rom8), size |-> romSize(c4)])

\* the statements are done: }
functionEnd(c, el, i) ==
    LET c6 == setRom8(c, Local(c).localsIndex, localSize(c))
        c7 == IF c6.nextMem > c6.localHighWaterMark
              THEN [c6 EXCEPT !.localHighWaterMark = c6.nextMem] ELSE c6
        c8 == IF Local(c).size = romSize(c7) \/ lastOp(c7) # OpReturn
              THEN addOp(addOpSingleByteIndex(c7, OpPushIntConstS, 0), OpReturn)
              ELSE c7
    IN  IF ~Ok(c) \/ i < Len(el.body) THEN c
        ELSE Return([c8 EXCEPT !.inFunction = FALSE,
                               !.funLog = @ \cup {[name |-> el.name, addr |-> Local(c).addr,
                                                   end |-> Len(c8.rom8),
                                                   args |-> Local(c).args]}], TRUE)

\* i statements of the body are done
function(c, el, i) ==
    IF i = 0 THEN functionEnd(functionStart(c, el), el, i) ELSE functionEnd(c, el, i)

\* command id count initFn loopFn: registers the entry point pair
command(c, el) ==
    LET fi == findFunction(c, el.ini)
        fl == findFunction(c, el.loop)
        c1 == expect(expect(c, fi # 0, "UndefinedIdentifier"), fl # 0, "UndefinedIdentifier")
    IN  IF ~Ok(c1) THEN c1
        ELSE Ret([c1 EXCEPT !.commands = Append(@, [cmd |-> el.cmd, count |-> el.count,
                                                    initAddr |-> c.functions[fi].addr,
                                                    loopAddr |-> c.functions[fl].addr])],
                 TRUE)

\* the production node calls, resolved through the productions that only pass
\* the tree on: operatorLoop without an operator ahead is unaryExpression, and
\* so on down to primaryExpression
Production(node) ==
    LET k == node.e.k
        down == node.p \in {"operatorLoop", "unaryExpression", "postfixExpression"}
    IN  IF ~down THEN node.p
        ELSE IF node.p = "operatorLoop" /\ k = "bin" THEN "operatorLoop"
        ELSE IF node.p # "postfixExpression" /\ k = "un" THEN "unaryExpression"
        ELSE IF k \in {"call", "index", "dot", "post"} THEN "postfixExpression"
        ELSE "primaryExpression"

Optional(e, arithType) == Call(IF e = NoExpr THEN "none" ELSE "arithmeticExpression", e, arithType)

\* the productions a statement calls, in the order of the calls
statementCalls(st) ==
    CASE st.k = "block" -> [j \in 1 .. Len(st.body) |-> Call("statement", st.body[j], "Op")]
      [] st.k = "if" -> <<Call("arithmeticExpression", st.c, "Op"),
                          Call("statement", st.then, "Op"),
                          Call(IF st.else = NoExpr THEN "none" ELSE "statement", st.else, "Op")>>
      [] st.k = "for" -> <<CASE st.ini.k = "none" -> Call("none", NoExpr, "Op")
                             [] st.ini.k = "decl" -> Call("arithmeticExpression", st.ini.e, "Op")
                             [] OTHER -> Call("arithmeticExpression", st.ini, "Assign"),
                           Optional(st.cond, "Op"), Optional(st.iter, "Op"),
                           Call("statement", st.body, "Op")>>
      [] st.k = "while" -> <<Call("arithmeticExpression", st.c, "Op"),
                             Call("statement", st.body, "Op")>>
      [] st.k = "loop" -> <<Call("statement", st.body, "Op")>>
      [] st.k = "return" -> <<Call("arithmeticExpression", st.e, "Op")>>
      [] st.k = "log" ->
            [j \in 1 .. Len(st.args) |-> Call("arithmeticExpression", st.args[j], "Op")]
      [] st.k = "var" -> [j \in 1 .. Len(st.vars) |-> Optional(st.vars[j].ini, "Op")]
      [] st.k = "expr" -> <<Call("arithmeticExpression", st.e, "Assign")>>
      [] OTHER -> <<>>

\* the productions the production of node calls, in the order of the calls
calls(node) ==
    LET e == node.e
        prod == Production(node)
    IN  CASE prod = "arithmeticExpression" -> <<Call("operatorLoop", e, node.at)>>
          [] prod = "operatorLoop" -> <<Call("operatorLoop", e.l, node.at),
                                        Call("arithmeticExpression", e.r, "Op")>>
          [] prod = "unaryExpression" -> <<Call("unaryExpression", e.e, "Op")>>
          [] prod = "postfixExpression" ->
                <<Call("postfixExpression", e.a, "Op")>>
                \o CASE e.k = "call" -> [j \in 1 .. Len(e.args) |->
                                            Call("arithmeticExpression", e.args[j], "Op")]
                     [] e.k = "index" -> <<Call("arithmeticExpression", e.i, "Op")>>
                     [] OTHER -> <<>>
          [] prod = "primaryExpression" ->
                IF e.k = "paren" THEN <<Call("arithmeticExpression", e.e, "Op")>> ELSE <<>>
          [] prod = "statement" -> statementCalls(e)
          [] prod = "function" -> [j \in 1 .. Len(e.body) |-> Call("statement", e.body[j], "Op")]

\* the production of node, from the return of its i-th call to its next call
production(c, node, i) ==
    LET prod == Production(node)
    IN  CASE prod = "arithmeticExpression" -> arithmeticExpression(c, node.e, node.at, i)
          [] prod = "operatorLoop" -> operatorLoop(c, node.e, node.at, i)
          [] prod = "unaryExpression" -> unaryExpression(c, node.e, i)
          [] prod = "postfixExpression" -> postfixExpression(c, node.e, i)
          [] prod = "primaryExpression" -> primaryExpression(c, node.e, i)
          [] prod = "statement" -> statement(c, node.e, i)
          [] prod = "function" -> function(c, node.e, i)

RECURSIVE run(_, _, _)
RECURSIVE next(_, _, _, _)

\* c1 is c after i calls: the production returns, or makes its next call
next(c, c1, node, i) ==
    IF ~Ok(c1) \/ Returned(c, c1, i) THEN c1
    ELSE run(run(c1, calls(node)[i + 1], 0), node, i + 1)

\* the call node, i of its own calls done: an error throws past every caller
run(c, node, i) ==
    IF ~Ok(c) \/ node.p = "none" THEN c ELSE next(c, production(c, node, i), node, i)

element(c, el) ==
    CASE el.k = "const" -> constant(c, el)
      [] el.k = "var" -> run(c, Call("statement", el, "Op"), 0)
      [] el.k = "table" -> table(c, el)
      [] el.k = "struct" -> strucT(c, el)
      [] el.k = "function" -> run(c, Call("function", el, "Op"), 0)
      [] el.k = "command" -> command(c, el)
      [] OTHER -> Ret(c, FALSE)

\* CompileEngine::emit: the engine after the stack size check, and the image
emitCheck(c) ==
    expect(c, c.localHighWaterMark + StackOverhead <= MaxStackSize, "StackTooBig")

emit(c) ==
    Image(c.rom32, c.globalSize, c.localHighWaterMark + StackOverhead, c.commands, c.rom8)

(***************************************************************************)
(* Source programs, as the trees the recursive descent walks               *)
(***************************************************************************)
Lit(v) == [k |-> "int", v |-> v]
Id(name) == [k |-> "id", name |-> name]
Paren(e) == [k |-> "paren", e |-> e]
Un(op, e) == [k |-> "un", op |-> op, e |-> e]
Bin(op, l, r) == [k |-> "bin", op |-> op, l |-> l, r |-> r]
CallE(name, args) == [k |-> "call", a |-> Id(name), args |-> args]
IndexE(a, i) == [k |-> "index", a |-> a, i |-> i]
Dot(a, name) == [k |-> "dot", a |-> a, name |-> name]
Post(a, op) == [k |-> "post", a |-> a, op |-> op]

ExprS(e) == [k |-> "expr", e |-> e]
IfS(c, t, e) == [k |-> "if", c |-> c, then |-> t, else |-> e]
ForS(ini, cond, iter, body) ==
    [k |-> "for", ini |-> ini, cond |-> cond, iter |-> iter, body |-> body]
Decl(type, name, e) == [k |-> "decl", type |-> type, name |-> name, e |-> e]
WhileS(c, body) == [k |-> "while", c |-> c, body |-> body]
LoopS(body) == [k |-> "loop", body |-> body]
ReturnS(e) == [k |-> "return", e |-> e]
BreakS == [k |-> "break"]
ContinueS == [k |-> "continue"]
LogS(str, args) == [k |-> "log", str |-> str, args |-> args]
Block(body) == [k |-> "block", body |-> body]
V(name, size, ini) == [name |-> name, size |-> size, ini |-> ini]
VarS(type, vs) == [k |-> "var", type |-> type, ptr |-> FALSE, vars |-> vs]
Val(i) == [neg |-> i < 0, val |-> IF i < 0 THEN -i ELSE i]

Param(type, name) == [type |-> type, ptr |-> FALSE, name |-> name]
FunctionE(type, name, params, body) ==
    [k |-> "function", type |-> type, name |-> name, params |-> params, body |-> body]
CommandE(cmd, count, ini, lp) ==
    [k |-> "command", cmd |-> cmd, count |-> count, ini |-> ini, loop |-> lp]

TypeP == StructTypeBase

\* struct P { int x; int y; }  int g, arr[3];  float fv;  P s;  P sa[2];
\* const int K 7;  table int tab { 1 2 -3 }
\* function int add(int a, int b) { return a + b; }
Prelude ==
    << [k |-> "struct", name |-> "P",
        entries |-> <<[name |-> "x", type |-> TypeInt], [name |-> "y", type |-> TypeInt]>>],
       VarS(TypeInt, <<V("g", 1, NoExpr), V("arr", 3, NoExpr)>>),
       VarS(TypeFloat, <<V("fv", 1, NoExpr)>>),
       VarS(TypeP, <<V("s", 1, NoExpr)>>),
       VarS(TypeP, <<V("sa", 2, NoExpr)>>),
       [k |-> "const", type |-> TypeInt, name |-> "K", v |-> Val(7)],
       [k |-> "table", type |-> TypeInt, name |-> "tab", vals |-> <<Val(1), Val(2), Val(-3)>>],
       FunctionE(TypeInt, "add", <<Param(TypeInt, "a"), Param(TypeInt, "b")>>,
                 <<ReturnS(Bin("+", Id("a"), Id("b")))>>) >>

Assign(name, e) == ExprS(Bin("=", Id(name), e))

\* the literals the bodies materialize
MaxLiteral == 300
Literals == {0, 9, 15, 16, 255, 256, MaxLiteral}

\* the words a condition is compiled from
Conditions == {0, 1}

ParamNames == <<"p1", "p2">>

LoopCond == Bin("<", Id("g"), Lit(3))

BodyOf(name, n) ==
    CASE name = "ifelse" ->
            <<IfS(Lit(n), Assign("g", Lit(1)), Assign("g", Lit(2))), ReturnS(Id("g"))>>
      [] name = "if" ->
            <<Assign("g", Lit(5)), IfS(Lit(n), Assign("g", Lit(1)), NoExpr), ReturnS(Id("g"))>>
      [] name = "ifreturn" -> <<IfS(Id("g"), ReturnS(Lit(1)), NoExpr)>>
      [] name = "ifelsereturn" -> <<IfS(Id("g"), ReturnS(Lit(1)), ReturnS(Lit(2)))>>
      [] name = "for" ->
            <<ForS(Decl(TypeInt, "i", Lit(0)), Bin("<", Id("i"), Lit(3)), Post(Id("i"), "++"),
                   Block(<<IfS(Bin("==", Id("i"), Lit(1)), ContinueS, NoExpr),
                           IfS(Bin("==", Id("i"), Lit(n)), BreakS, NoExpr),
                           ExprS(Bin("+=", Id("g"), Id("i")))>>)),
              ReturnS(Id("g"))>>
      [] name = "fornoiter" ->
            <<ForS(Bin("=", Id("g"), Lit(0)), LoopCond, NoExpr,
                   Block(<<ExprS(Post(Id("g"), "++")), ContinueS>>)),
              ReturnS(Id("g"))>>
      [] name = "forvalue" ->
            <<ForS(Id("g"), NoExpr, NoExpr, Block(<<BreakS>>)), ReturnS(Lit(n))>>
      [] name = "forvaluethen" ->
            <<ForS(Id("g"), NoExpr, NoExpr, Block(<<BreakS>>)), ExprS(Id("g")),
              ReturnS(Lit(n))>>
      [] name = "while" ->
            <<WhileS(LoopCond, Block(<<ExprS(Un("++", Id("g"))),
                                       IfS(Bin("==", Id("g"), Lit(n)), BreakS, NoExpr)>>)),
              ReturnS(Id("g"))>>
      [] name = "loop" ->
            <<LoopS(Block(<<ExprS(Post(Id("g"), "--")),
                            IfS(Id("g"), ContinueS, NoExpr), BreakS>>)),
              ReturnS(Lit(n))>>
      [] name = "vars" ->
            <<VarS(TypeInt, <<V("v", 1, Lit(n)), V("w", 2, NoExpr)>>),
              VarS(TypeFloat, <<V("x", 1, Lit(n))>>),
              Block(<<VarS(TypeInt, <<V("y", 1, Bin("+", Id("v"), Lit(n)))>>),
                      ExprS(Bin("*=", Id("v"), Id("y")))>>),
              LogS(<<104, 105>>, <<Id("v"), Id("x")>>),
              ExprS(CallE("add", <<Id("v"), Lit(n)>>)),
              ReturnS(Id("v"))>>
      [] name = "value" ->
            <<Assign("g", Bin("+", Bin("*", CallE("add", <<IndexE(Id("arr"), Lit(1)),
                                                           Dot(Id("s"), "y")>>),
                                       Un("-", Id("g"))),
                              Paren(Bin("-", IndexE(Id("tab"), Lit(2)), Un("~", Id("K")))))),
              ExprS(Bin("-=", IndexE(Id("arr"), Lit(n)),
                        Bin("&", Dot(IndexE(Id("sa"), Lit(1)), "x"), Un("!", Lit(n))))),
              Assign("g", CallE("add", <<Post(Id("g"), "--"), Lit(n)>>)),
              ReturnS(Bin("+", Post(Id("g"), "++"), Un("--", Id("g"))))>>
      [] name = "literal" ->
            <<Assign("g", Bin("+", Lit(n), Un("-", Lit(n)))), ReturnS(Lit(n))>>
      [] name = "floatliteral" -> <<Assign("fv", Lit(n)), ReturnS(Lit(0))>>
      [] name = "empty" -> <<>>
      [] name = "noreturn" -> <<Assign("g", Lit(n))>>
      [] name = "break" -> <<BreakS>>
      [] name = "undefined" -> <<Assign("zz", Lit(n))>>
      [] name = "mismatch" -> <<Assign("g", Id("fv"))>>
      [] name = "nested" -> <<Assign("g", Paren(Bin("=", Id("g"), Lit(n))))>>
      [] name = "big" -> <<VarS(TypeInt, <<V("big", 70, NoExpr)>>)>>
      [] name = "preinc" ->
            <<VarS(TypeInt, <<V("x", 1, Lit(3))>>),
              ReturnS(Bin("*", Un("++", Id("x")), Lit(2)))>>

BodyNames ==
    {"ifelse", "if", "ifreturn", "ifelsereturn", "for", "fornoiter", "forvalue",
     "forvaluethen", "while", "loop", "vars", "value", "literal", "floatliteral", "empty",
     "noreturn", "break", "undefined", "mismatch", "nested", "big", "preinc"}

ArgsOf(name) ==
    CASE name \in {"ifreturn", "ifelsereturn"} -> {0, 1, 2}
      [] name \in {"ifelse", "if"} -> Conditions
      [] name \in {"literal", "floatliteral"} -> Literals
      [] name \in {"for", "while"} -> {2}
      [] OTHER -> {1}

\* the program with body name: Init is the function under test
Program(name, n) ==
    [name |-> name, n |-> n,
     elements |->
        Prelude
        \o (IF name \in {"ifreturn", "ifelsereturn"}
            THEN <<FunctionE(TypeInt, "Init", [i \in 1 .. n |-> Param(TypeInt, ParamNames[i])],
                             BodyOf(name, n))>>
            ELSE <<FunctionE(TypeInt, "Init", <<>>, BodyOf(name, n))>>)
        \o <<FunctionE(TypeInt, "Loop", <<>>, <<ReturnS(Id("g"))>>),
             CommandE(99, 0, "Init", "Loop")>>]

\* a loop statement of each kind around body
LoopOf(kind, body) ==
    CASE kind = "for" -> ForS(Bin("=", Id("g"), Lit(0)), LoopCond, Post(Id("g"), "++"), body)
      [] kind = "while" -> WhileS(LoopCond, body)
      [] kind = "loop" -> LoopS(body)

LoopKinds == {"for", "while", "loop"}

\* function int Init() {
\*     outer { if (g) continue; inner { if (g) break; continue; } if (g) break; continue; }
\*     return g; }
NestProgram(outer, inner) ==
    [name |-> "nest", n |-> 0,
     elements |->
        Prelude
        \o <<FunctionE(TypeInt, "Init", <<>>,
                       <<LoopOf(outer,
                                Block(<<IfS(Id("g"), ContinueS, NoExpr),
                                        LoopOf(inner, Block(<<IfS(Id("g"), BreakS, NoExpr),
                                                              ContinueS>>)),
                                        IfS(Id("g"), BreakS, NoExpr),
                                        ContinueS>>)),
                         ReturnS(Id("g"))>>),
             FunctionE(TypeInt, "Loop", <<>>, <<ReturnS(Id("g"))>>),
             CommandE(99, 0, "Init", "Loop")>>]

\* function int Init() { int x = 6, y = 5; g = 6; arr[1] = 6; T op= y - 2; return T; }
\* with T one of x, g and arr[1]
AssignTokens == {"+=", "-=", "*=", "/=", "&=", "|=", "^="}
AssignTargets == {"x", "g", "arr"}
TargetOf(target) == IF target = "arr" THEN IndexE(Id("arr"), Lit(1)) ELSE Id(target)
AssignProgram(token, target) ==
    [name |-> "assign", n |-> 0, token |-> token, target |-> target,
     elements |->
        Prelude
        \o <<FunctionE(TypeInt, "Init", <<>>,
                       <<VarS(TypeInt, <<V("x", 1, Lit(6)), V("y", 1, Lit(5))>>),
                         Assign("g", Lit(6)),
                         ExprS(Bin("=", IndexE(Id("arr"), Lit(1)), Lit(6))),
                         ExprS(Bin(token, TargetOf(target), Bin("-", Id("y"), Lit(2)))),
                         ReturnS(TargetOf(target))>>),
             FunctionE(TypeInt, "Loop", <<>>, <<ReturnS(Id("g"))>>),
             CommandE(99, 0, "Init", "Loop")>>]

\* function int Init() { L op R; return 1; }
\* with L and R among the int g, the float fv and the struct s
TypedTokens == {"+", "&", "<", "+=", "&="}
TypedOperands == {"g", "fv", "s"}
TypedProgram(token, l, r) ==
    [name |-> "typed", n |-> 0, token |-> token, l |-> l, r |-> r,
     elements |->
        Prelude
        \o <<FunctionE(TypeInt, "Init", <<>>,
                       <<ExprS(Bin(token, Id(l), Id(r))), ReturnS(Lit(1))>>),
             CommandE(99, 0, "Init", "Init")>>]

\* struct Q { int f0; ... int f(n-1); }  Q qa[2];
\* function int Init() { return qa[i].f; }
FieldNames ==
    <<"f0", "f1", "f2", "f3", "f4", "f5", "f6", "f7", "f8",
     "f9", "f10", "f11", "f12", "f13", "f14", "f15", "f16", "f17">>
StructSizes == {2, 15, 16, 17}
StructProgram(n, i, f) ==
    [name |-> "struct", n |-> n, i |-> i, f |-> f,
     elements |->
        << [k |-> "struct", name |-> "Q",
            entries |-> [k \in 1 .. n |-> [name |-> FieldNames[k], type |-> TypeInt]]],
           VarS(TypeP, <<V("qa", 2, NoExpr)>>),
           FunctionE(TypeInt, "Init", <<>>,
                     <<ReturnS(Dot(IndexE(Id("qa"), Lit(i)), FieldNames[f + 1]))>>),
           CommandE(99, 0, "Init", "Init") >>]

\* table int big { 0 1 ... }  function int Init() { return k; }
PoolProgram(k) ==
    [name |-> "pool", n |-> k,
     elements |->
        << [k |-> "table", type |-> TypeInt, name |-> "fill",
            vals |-> [i \in 1 .. ConstSize |-> Val(i + MaxLiteral)]],
           FunctionE(TypeInt, "Init", <<>>, <<ReturnS(Lit(k))>>),
           CommandE(99, 0, "Init", "Init") >>]

\* const int C n;  (when first)
\* function int Init() { g = n; g = 2 * MaxLiteral; fv = n; g = n + C; return n; }
\* const int C n;  (when not first)
\* function int Loop() { fv = n; return n; }
InternProgram(n, first) ==
    [name |-> "intern", n |-> n,
     elements |->
        Prelude
        \o (IF first THEN <<[k |-> "const", type |-> TypeInt, name |-> "C", v |-> Val(n)]>>
            ELSE <<>>)
        \o <<FunctionE(TypeInt, "Init", <<>>,
                       <<Assign("g", Lit(n)), Assign("g", Lit(2 * MaxLiteral)),
                         Assign("fv", Lit(n)),
                         Assign("g", Bin("+", Lit(n), IF first THEN Id("C") ELSE Lit(n))),
                         ReturnS(Lit(n))>>)>>
        \o (IF first THEN <<>>
            ELSE <<[k |-> "const", type |-> TypeInt, name |-> "C", v |-> Val(n)]>>)
        \o <<FunctionE(TypeInt, "Loop", <<>>, <<Assign("fv", Lit(n)), ReturnS(Lit(n))>>),
             CommandE(99, 0, "Init", "Loop")>>]

\* table int fill { ... n values ... }  table int last { 5 }
\* function int Init(int a, int b) { int pad[m]; int x; x = last; return x; }
TableProgram(n, m) ==
    [name |-> "table", n |-> n,
     elements |->
        << VarS(TypeInt, <<V("g", 1, NoExpr)>>),
           [k |-> "table", type |-> TypeInt, name |-> "fill",
            vals |-> [i \in 1 .. n |-> Val(i + MaxLiteral)]],
           [k |-> "table", type |-> TypeInt, name |-> "last", vals |-> <<Val(5)>>],
           FunctionE(TypeInt, "Init", <<Param(TypeInt, "a"), Param(TypeInt, "b")>>,
                     <<VarS(TypeInt, <<V("pad", m, NoExpr), V("x", 1, NoExpr)>>),
                       Assign("x", Id("last")), Assign("g", Id("x")), ReturnS(Id("g"))>>),
           CommandE(99, 2, "Init", "Init") >>]

\* table int fill { ... n values ... }
\* function int Init() { return 7; }  function int Loop() { return 8; }
\* k commands ahead of command 99 0 Init Loop, and one behind it when k is 2
LayoutSizes == {0, 1, 255, 256}
LayoutProgram(n, k) ==
    [name |-> "layout", n |-> n, k |-> k,
     elements |->
        (IF n = 0 THEN <<>>
         ELSE <<[k |-> "table", type |-> TypeInt, name |-> "fill",
                 vals |-> [i \in 1 .. n |-> Val(i + MaxLiteral)]]>>)
        \o <<FunctionE(TypeInt, "Init", <<>>, <<ReturnS(Lit(7))>>),
             FunctionE(TypeInt, "Loop", <<>>, <<ReturnS(Lit(8))>>)>>
        \o [i \in 1 .. k |-> CommandE(96 + i, 0, "Loop", "Loop")]
        \o <<CommandE(99, 0, "Init", "Loop")>>
        \o (IF k = 2 THEN <<CommandE(100, 0, "Loop", "Init")>> ELSE <<>>)]

\* int x = v;  function int Loop() { return 8; }  function int Init() { return x; }
\* with the declaration ahead of the functions or between them
InitValues == {5, MaxLiteral + 1}
GlobalInitProgram(v, first) ==
    LET decl == VarS(TypeInt, <<V("x", 1, Lit(v))>>)
        loopFn == FunctionE(TypeInt, "Loop", <<>>, <<ReturnS(Lit(8))>>)
    IN  [name |-> "ginit", v |-> v, first |-> first,
         elements |->
            (IF first THEN <<decl, loopFn>> ELSE <<loopFn, decl>>)
            \o <<FunctionE(TypeInt, "Init", <<>>, <<ReturnS(Id("x"))>>),
                 CommandE(99, 0, "Init", "Loop")>>]

\* int g, many[n];  function int Init() { return g; }
GlobalsProgram(n) ==
    [name |-> "globals", n |-> n,
     elements |->
        << VarS(TypeInt, <<V("g", 1, NoExpr), V("many", n, NoExpr)>>),
           FunctionE(TypeInt, "Init", <<>>, <<ReturnS(Id("g"))>>),
           CommandE(99, 0, "Init", "Init") >>]

\* table int fill { ... n values ... }  const int C 5;  function int Init() { return C; }
ConstProgram(n) ==
    [name |-> "const", n |-> n,
     elements |->
        << [k |-> "table", type |-> TypeInt, name |-> "fill",
            vals |-> [i \in 1 .. n |-> Val(i + MaxLiteral)]],
           [k |-> "const", type |-> TypeInt, name |-> "C", v |-> Val(5)],
           FunctionE(TypeInt, "Init", <<>>, <<ReturnS(Id("C"))>>),
           CommandE(99, 0, "Init", "Init") >>]

\* the longest string log takes
LongString == [i \in 1 .. 255 |-> 65]

\* int g;  function int Init() { if (g) { log("AA...A"); ... n times } return 1; }
\* (257 bytes each: 7 fit a 12-bit offset, 8 do not)
\* and the same with while (g)
LongProgram(kind, n) ==
    [name |-> "long" \o kind, n |-> n,
     elements |->
        << VarS(TypeInt, <<V("g", 1, NoExpr)>>),
           FunctionE(TypeInt, "Init", <<>>,
                     << IF kind = "if"
                        THEN IfS(Id("g"), Block([i \in 1 .. n |-> LogS(LongString, <<>>)]), NoExpr)
                        ELSE WhileS(Id("g"), Block([i \in 1 .. n |-> LogS(LongString, <<>>)])),
                        ReturnS(Lit(1)) >>),
           CommandE(99, 0, "Init", "Init") >>]

\* function int pad() { log("AA...A"); return 0; }   (n characters: pad is n + 6 bytes)
\* function int entry() { return 7; }
\* function int Init() { return entry(); }
CallProgram(n) ==
    [name |-> "call", n |-> n,
     elements |->
        << FunctionE(TypeInt, "pad", <<>>,
                     <<LogS([i \in 1 .. n |-> 65], <<>>), ReturnS(Lit(0))>>),
           FunctionE(TypeInt, "entry", <<>>, <<ReturnS(Lit(7))>>),
           FunctionE(TypeInt, "Init", <<>>, <<ReturnS(CallE("entry", <<>>))>>),
           CommandE(99, 0, "Init", "Init") >>]

\* int g, h;  function int f(int h) { int g; g = 5; return g + h; }
\* function int Init() { return f(n); }
ShadowProgram(n) ==
    [name |-> "shadow", n |-> n,
     elements |->
        << VarS(TypeInt, <<V("g", 1, NoExpr), V("h", 1, NoExpr)>>),
           FunctionE(TypeInt, "f", <<Param(TypeInt, "h")>>,
                     <<VarS(TypeInt, <<V("g", 1, NoExpr)>>), Assign("g", Lit(5)),
                       ReturnS(Bin("+", Id("g"), Id("h")))>>),
           FunctionE(TypeInt, "Init", <<>>, <<ReturnS(CallE("f", <<Lit(n)>>))>>),
           CommandE(99, 0, "Init", "Init") >>]

Programs ==
    UNION {{Program(name, n) : n \in ArgsOf(name)} : name \in BodyNames}
    \cup {PoolProgram(k) : k \in {MaxLiteral + 1, MaxLiteral + ConstSize + 1}}
    \cup {NestProgram(outer, inner) : outer \in LoopKinds, inner \in LoopKinds}
    \cup {AssignProgram(token, target) : token \in AssignTokens, target \in AssignTargets}
    \cup UNION {{StructProgram(n, i, f) : i \in {0, 1}, f \in {0, n - 1}} : n \in StructSizes}
    \cup {InternProgram(n, first) : n \in Literals, first \in BOOLEAN}
    \cup {TypedProgram(token, l, r) : token \in TypedTokens, l \in TypedOperands,
                                      r \in TypedOperands}
    \cup {GlobalInitProgram(v, first) : v \in InitValues, first \in BOOLEAN}
    \cup {LayoutProgram(n, k) : n \in LayoutSizes, k \in 0 .. 2}
    \cup {TableProgram(n, 1) : n \in {ConstSize - 1, ConstSize}}
    \cup {TableProgram(ConstSize - 1, m) : m \in {LocalSize - 1, LocalSize}}
    \cup {LongProgram(kind, n) : kind \in {"if", "while"}, n \in {7, 8}}
    \cup {CallProgram(n) : n \in {57, 58, 255}}
    \cup {ShadowProgram(n) : n \in {1}}
    \cup {GlobalsProgram(n) : n \in {GlobalSize - 1, GlobalSize}}
    \cup {ConstProgram(n) : n \in {ConstSize - 1, ConstSize}}

(***************************************************************************)
(* Compiling a program, emitting its image and running it                  *)
(***************************************************************************)
\* one turn of while(element()) { } in program()
CompileElement ==
    /\ Ok(cs)
    /\ cs.token <= Len(src.elements)
    /\ cs' = [element(cs, src.elements[cs.token]) EXCEPT !.token = @ + 1]
    /\ UNCHANGED <<executable, vm, mode, host, frames, refTag, last, src>>

\* Compiler::compile after program() has returned: _error is read from the
\* engine, emit runs when it is None and what emit throws is dropped, and
\* compile returns _error == None.  host.error is Compiler::error().
Emit ==
    /\ host.compile = NotCalled
    /\ ~Ok(cs) \/ cs.token > Len(src.elements)
    /\ cs' = IF Ok(cs) THEN emitCheck(cs) ELSE cs
    /\ executable' = IF Ok(cs) /\ Ok(emitCheck(cs)) THEN emit(cs) ELSE <<>>
    /\ host' = [host EXCEPT !.compile = BoolWord(Ok(cs)), !.error = cs.error]
    /\ UNCHANGED <<vm, mode, frames, refTag, last, src>>

InitClover ==
    /\ src \in Programs
    /\ cs = NewCompileEngine
    /\ executable = <<>>
    /\ vm = NewInterpreter
    /\ mode = "idle"
    /\ host = NoHost
    /\ frames = <<>>
    /\ refTag = NoWords
    /\ last = NoLast

NextClover ==
    \/ CompileElement
    \/ Emit
    \/ \E j \in Junk : HostInit(99, <<>>, j)
    \/ HostLoop
    \/ \E j \in Junk : ExecuteStep(j)

SpecClover == InitClover /\ [][NextClover]_vars

(***************************************************************************)
(* Properties of the interpreter                                           *)
(***************************************************************************)
Dispatching(op) ==
    /\ mode # "idle"
    /\ checkError(vm).error = "None"
    /\ fetchCmd(vm) = op

\* Return is about to leave a frame entered by Call whose saved slots are intact
ReturnsFromCall ==
    /\ Dispatching(OpReturn)
    /\ frames # <<>>
    /\ Top(frames).kind = "call"
    /\ FrameIntact(vm, Top(frames))

\* C1: a Return executed with only the return value above the saved slots of a
\* frame that a Call and SetFrame p l made resumes after the Call operand with
\* the caller's bp, sp at the caller's sp before the p arguments plus one, and
\* the return value on top, at any depth of calls.
C1_CallReturnRoundTrip ==
    [][ReturnsFromCall =>
        LET f == Top(frames)
        IN  /\ vm'.pc = f.callAt + 2
            /\ vm'.bp = f.callerBp
            /\ vm'.sp = f.callSp - f.p + 1
            /\ vm'.stack[vm'.sp - 1] = vm.stack[vm.sp - 1]
            /\ ~vm'.halted
            /\ vm'.error = "None" /\ vm'.stackError = "None"]_vars

C1_Witness ==
    /\ last.cmd = OpReturn /\ last.kind = "call" /\ last.intact
    /\ last.depth = 3
    /\ Top(frames).kind = "call"
    /\ vm.sp = Top(frames).bp + Top(frames).p + Top(frames).l + 3
    /\ ~vm.halted

\* SetFrame is about to execute with a pc on top of the stack
SetsFrame ==
    /\ Dispatching(OpSetFrame)
    /\ vm.sp >= 1 /\ InArray(vm, vm.sp - 1)
    /\ vm.stack[vm.sp - 1] = ToInt16(vm.stack[vm.sp - 1])

\* C2: SetFrame p l without error grows sp by l+1, sets bp = sp - p - l - 2,
\* leaves the p words that lay below the return pc as local(0..p-1), the saved
\* pc at bp+p+l and the previous bp at bp+p+l+1.
C2_SetFrameLayout ==
    [][(SetsFrame /\ vm'.error = "None" /\ vm'.stackError = "None") =>
        LET p == getUInt8ROM(vm.pc + 1) \div 16
            l == getUInt8ROM(vm.pc + 1) % 16
        IN  /\ vm'.sp = vm.sp + l + 1
            /\ vm'.bp = vm'.sp - p - l - 2
            /\ vm'.stack[vm'.bp + p + l] = vm.stack[vm.sp - 1]
            /\ vm'.stack[vm'.bp + p + l + 1] = vm.bp
            /\ \A i \in 0 .. p - 1 :
                  /\ localValue(vm', i, 0) = vm.stack[vm.sp - 1 - p + i]
                  /\ localCheck(vm', i).stackError = "None"
            /\ ~vm'.halted]_vars

C2_Witness ==
    /\ last.cmd = OpSetFrame
    /\ frames # <<>> /\ Top(frames).p = 2 /\ Top(frames).l >= 1
    /\ Top(frames).kind = "call"
    /\ vm.bp = Top(frames).bp /\ vm.bp > 0
    /\ vm.error = "None" /\ vm.stackError = "None" /\ ~vm.halted

\* Return is about to leave the frame the host call entered from an empty stack
OutermostReturn ==
    /\ Dispatching(OpReturn)
    /\ Len(frames) = 1
    /\ Top(frames).kind = "host"
    /\ Top(frames).bp = 0 /\ Top(frames).callerBp = 0
    /\ FrameIntact(vm, Top(frames))

C4_RefDenotesSameWord ==
    [][/\ (Dispatching(OpPushDeref) /\ TagAt(vm.sp - 1) # NoTag /\ vm'.stackError = "None") =>
            vm'.stack[vm'.sp - 1] = vm.stack[TagAt(vm.sp - 1)]
       /\ (Dispatching(OpPopDeref) /\ TagAt(vm.sp - 2) # NoTag /\ vm'.stackError = "None") =>
            vm'.stack[TagAt(vm.sp - 2)] = vm.stack[vm.sp - 1]]_vars

(***************************************************************************)
(* Claims about the compiled code                                          *)
(***************************************************************************)
\* the byte of the compiled code at offset a
CodeAt(a) == cs.rom8[a + 1]

\* the branches patched inside function f
JumpsOf(f) == {j \in cs.jumpLog : f.addr <= j.addr /\ j.addr < f.end}

\* C5: every compiled function starts with the SetFrame byte and ends every
\* path with Return: its last byte is a Return and no branch inside it targets
\* the byte after its last byte, from where execution would run into the
\* code that follows.
C5_SetFrameFirstReturnLast ==
    \A f \in cs.funLog :
        /\ CodeAt(f.addr) = OpSetFrame
        /\ CodeAt(f.end - 1) = OpReturn
        /\ \A j \in JumpsOf(f) : j.label < f.end

\* the path part of C5 alone, for functions without parameters
C5_NoPathLeavesFunction ==
    \A f \in cs.funLog : f.args = 0 => \A j \in JumpsOf(f) : j.label < f.end

\* init() of the command has run the compiled Init function until it stopped
InitRan == mode = "idle" /\ last.mode = "init" /\ last.cmd # HostInitCall

\* what g holds after if (n) g = 1; else g = 2;  and after  g = 5; if (n) g = 1;
IfElseResult(name, n) ==
    IF n # 0 THEN 1 ELSE IF name = "ifelse" THEN 2 ELSE 5

\* C6: code compiled from if (c) S1 else S2 runs S1 when c is non-zero and S2
\* when c is zero, and then continues after S2 without a VM error; without an
\* else a zero c continues after S1.
C6_IfElseRuns ==
    (src.name \in {"ifelse", "if"} /\ InitRan) =>
        /\ vm.error = "None"
        /\ vm.global[0] = IfElseResult(src.name, src.n)
        /\ vm.result = IfElseResult(src.name, src.n)

\* the non-zero half of C6, which the interpreter does run
C6_NonZeroRuns ==
    (src.name \in {"ifelse", "if"} /\ src.n # 0 /\ InitRan) =>
        /\ vm.error = "None"
        /\ vm.global[0] = 1
        /\ vm.result = 1

\* the operand at a decoded as the 12 bit signed offset from the byte after it:
\* high four bits from the low nibble of the opcode byte, low eight from the
\* next byte
RelTarg(a) ==
    LET off == (CodeAt(a) % 16) * 256 + CodeAt(a + 1)
    IN  a + 2 + (IF off >= 2048 THEN off - 4096 ELSE off)

\* C7: every operand patched for a for statement, decoded as a 12 bit signed
\* offset from the byte following the operand, reaches its label.
C7_ForOperandsReachLabels ==
    \A j \in cs.jumpLog : j.stmt = "for" => RelTarg(j.addr) = j.label

\* the offsets themselves are right: the low byte and the bits or-ed into the
\* opcode byte are those of label - addr - 2
C7_OffsetBitsPatched ==
    \A j \in cs.jumpLog :
        /\ CodeAt(j.addr + 1) = (j.label - j.addr - 2) % 256
        /\ BitOpLow("and", CodeAt(j.addr), ((j.label - j.addr - 2) \div 256) % 16, 8)
             = ((j.label - j.addr - 2) \div 256) % 16

\* C8: after any statement of a function body is compiled without error the
\* ExprStack is empty.
C8_StatementLeavesExprStackEmpty ==
    \A s \in cs.stmtLog : s.after = 0

\* C9: an arithmetic expression compiled for its value, with no assignment
\* operator in it, that completes without error leaves the ExprStack exactly
\* one entry longer than it found it.
C9_ValueExpressionPushesOne ==
    \A x \in cs.exprLog : x.after = x.before + 1

C9_Witness ==
    /\ Ok(cs)
    /\ src.name = "value"
    /\ cs.token > Len(src.elements)
    /\ \A kind \in {"int", "id", "paren", "un", "bin", "call", "index", "dot", "post"} :
          \E x \in cs.exprLog : x.k = kind
    /\ \E x \in cs.exprLog : x.k = "bin" /\ x.before > 0

\* C10: an integer literal k materialized as an integer is emitted as
\* PushIntConstS k for 0..15, PushIntConst k for 16..255, and otherwise as Push
\* of a constants pool id whose pool word is k.
C10_LiteralEncoding ==
    \A x \in cs.litLog :
        x.matching # TypeFloat =>
            IF 0 <= x.k /\ x.k <= 15 THEN x.code = <<OpPushIntConstS + x.k>>
            ELSE IF 16 <= x.k /\ x.k <= 255 THEN x.code = <<OpPushIntConst, x.k>>
            ELSE /\ Len(x.code) = 2
                 /\ x.code[1] = OpPush
                 /\ ConstStart <= x.code[2] /\ x.code[2] < ConstStart + ConstSize
                 /\ x.word = x.k

\* C10 holds while the pool has room: only the full pool breaks it
C10_LiteralEncodingInPool ==
    \A x \in cs.litLog :
        (x.matching # TypeFloat /\ x.size <= ConstSize) =>
            IF 0 <= x.k /\ x.k <= 15 THEN x.code = <<OpPushIntConstS + x.k>>
            ELSE IF 16 <= x.k /\ x.k <= 255 THEN x.code = <<OpPushIntConst, x.k>>
            ELSE /\ Len(x.code) = 2
                 /\ x.code[1] = OpPush
                 /\ ConstStart <= x.code[2] /\ x.code[2] < ConstStart + ConstSize
                 /\ x.word = x.k

\* the pool word a materialized literal stands for
WordOf(x) == IF x.matching = TypeFloat THEN FloatBits(x.k) ELSE x.k

\* the literal was materialized as Push of a pool id
Pooled(x) == Len(x.code) = 2 /\ x.code[1] = OpPush

\* C11: interning is idempotent: however often a literal is materialized, and
\* whatever other literals and constants are declared in between, it adds one
\* word to the pool (none when a constant already holds the word), every Push
\* for it carries the same id, and the id denotes that word in the emitted pool.
C11_InterningIdempotent ==
    \A x \in cs.litLog :
        Pooled(x) =>
            /\ x.added = (IF x.held THEN 0 ELSE 1)
            /\ \A y \in cs.litLog : (Pooled(y) /\ WordOf(y) = WordOf(x)) => y.code = x.code
            /\ executable # <<>> =>
                    /\ ConstStart <= x.code[2] /\ x.code[2] < ConstStart + ConstSize
                    /\ cs.rom32[x.code[2] - ConstStart + 1] = WordOf(x)

\* C11 holds while the pool has room: only the full pool breaks it
C11_InterningInPool ==
    \A x \in cs.litLog :
        (Pooled(x) /\ x.size <= ConstSize) =>
            /\ x.added = (IF x.held THEN 0 ELSE 1)
            /\ \A y \in cs.litLog : (Pooled(y) /\ WordOf(y) = WordOf(x)) => y.code = x.code
            /\ executable # <<>> =>
                    /\ ConstStart <= x.code[2] /\ x.code[2] < ConstStart + ConstSize
                    /\ cs.rom32[x.code[2] - ConstStart + 1] = WordOf(x)

\* a literal was pooled once, found again, and the image is out
C11_Interned ==
    /\ executable # <<>>
    /\ src.name = "intern"
    /\ \E x, y \in cs.litLog :
          /\ Pooled(x) /\ Pooled(y) /\ WordOf(x) = WordOf(y)
          /\ x.added = 1 /\ y.added = 0 /\ y.size > x.size

\* the storage class Address::fromId gives an id
ClassOf(id) ==
    CASE fromId(id).type = "Const" -> "Const"
      [] fromId(id).type = "Global" -> "Global"
      [] fromId(id).type = "LocalRel" -> "Local"

\* C12: every Push, Pop or PushRef emitted for a symbol carries an id in the
\* region of the symbol's storage class, and Address::fromId decodes the id
\* back to that class and the symbol's zero-based offset.
C12_SymbolIdRoundTrip ==
    \A x \in cs.symLog :
        /\ x.storage = "Const" => ConstStart <= x.id /\ x.id < GlobalStart
        /\ x.storage = "Global" => GlobalStart <= x.id /\ x.id < LocalStart
        /\ x.storage = "Local" => LocalStart <= x.id /\ x.id <= 255
        /\ ClassOf(x.id) = x.storage
        /\ fromId(x.id).addr = x.addr

\* C12 holds for the symbols whose offset is inside their region
C12_SymbolIdInRegion ==
    \A x \in cs.symLog :
        x.addr < (IF x.storage = "Const" THEN ConstSize ELSE LocalStart - GlobalStart) =>
            /\ ClassOf(x.id) = x.storage
            /\ fromId(x.id).addr = x.addr

\* a constant, a global and a local were each pushed in a compiled program
C12_SymbolsPushed ==
    /\ executable # <<>>
    /\ \A s \in {"Const", "Global", "Local"} : \E x \in cs.symLog : x.storage = s

\* C13: a program that compiled has at most ConstSize words of constants,
\* GlobalSize words of globals and LocalSize words of locals in every function,
\* whatever mix of const, table, var and literals it declares: a program over
\* a limit does not compile.
C13_LimitsHold ==
    executable # <<>> =>
        /\ Len(cs.rom32) <= ConstSize
        /\ cs.globalSize <= GlobalSize
        /\ cs.localHighWaterMark <= LocalSize

\* C13 for variables: globals and locals are inside their limits, and the
\* programs over them end with TooManyVars and StackTooBig
C13_VarLimitsHold ==
    /\ executable # <<>> =>
            /\ cs.globalSize <= GlobalSize
            /\ cs.localHighWaterMark <= LocalSize
    /\ (src.name = "globals" /\ src.n = GlobalSize /\ cs.token > 1) =>
            cs.error = "TooManyVars"
    /\ (src.name \in {"big", "table"} /\ cs.token > Len(src.elements)
            /\ cs.localHighWaterMark > LocalSize /\ executable = <<>>) =>
            (ENABLED Emit \/ cs.error = "StackTooBig")
    /\ (src.name = "const" /\ src.n = ConstSize /\ cs.token > 2) =>
            cs.error = "TooManyConstants"

\* the offset patched into the operand at x.addr
OffsetOf(x) == x.label - x.addr - 2

\* C14: every branch offset emitted is in -2048 .. 2047 and its target is a
\* byte of the function that holds the branch: a branch that does not fit is
\* the compile error JumpTooBig, it is not truncated.
C14_BranchOffsetsFit ==
    \A x \in cs.jumpLog :
        /\ -2048 <= OffsetOf(x) /\ OffsetOf(x) <= 2047
        /\ \A f \in cs.funLog :
              (f.addr <= x.addr /\ x.addr < f.end) => (f.addr <= x.label /\ x.label < f.end)

\* the targets alone: no branch leaves its function by more than the byte
\* after its last instruction
C14_TargetsUpToFunctionEnd ==
    \A x \in cs.jumpLog :
        \A f \in cs.funLog :
            (f.addr <= x.addr /\ x.addr < f.end) => (f.addr <= x.label /\ x.label <= f.end)

\* the interpreter is about to dispatch the Call the compiler emitted at x.at
AtCall(x) ==
    /\ executable # <<>>
    /\ Dispatching(OpCall)
    /\ vm.pc = ToInt16(vm.codeOffset + x.at)

\* where that Call transfers control
CallTransfer == ExecCall(skipByte(vm), fetchIndex(vm)).pc

\* C15: a Call the compiler emits for the function at code offset a, decoded
\* as the interpreter decodes it (operand byte, index nibble, code offset),
\* transfers control to code offset a.
C15_CallTargetRoundTrip ==
    \A x \in cs.callLog : AtCall(x) => CallTransfer = ToInt16(vm.codeOffset + x.target)

\* C15 for the functions that start in the first 64 bytes of the code
C15_CallTargetBelow64 ==
    \A x \in cs.callLog :
        (AtCall(x) /\ x.target < 64) => CallTransfer = ToInt16(vm.codeOffset + x.target)

\* a Call of a function that does not start at offset 0 is about to run
C15_CallAboutToRun == \E x \in cs.callLog : AtCall(x) /\ x.target > 0 /\ x.target < 64

\* the interpreter about to fetch the byte the compiler emitted at rom8 offset at
FetchAt(at) == [vm EXCEPT !.pc = ToInt16(vm.codeOffset + at)]

\* the image of the compiled program is loaded
Loaded == executable # <<>> /\ vm.codeOffset > 0

\* C16: every instruction byte in which the compiler combines an opcode with a
\* 4-bit index (SetFrame, PushIntConstS, Offset, Index, Log, Call, and If and
\* Jump after patching) is split by the interpreter into that opcode and that
\* index.
C16_OpcodeByteRoundTrip ==
    Loaded => \A x \in cs.opLog :
                 /\ fetchCmd(FetchAt(x.at)) = x.op
                 /\ fetchIndex(FetchAt(x.at)) = x.index

\* C16 for the opcodes from 0x80 up, which the interpreter splits
C16_SplitOpsRoundTrip ==
    Loaded => \A x \in cs.opLog :
                 x.op >= 128 => /\ fetchCmd(FetchAt(x.at)) = x.op
                                /\ fetchIndex(FetchAt(x.at)) = x.index

\* each of the opcodes the interpreter splits was emitted with a non-zero index
C16_SplitOpsEmitted ==
    /\ Loaded
    /\ \A op \in {OpPushIntConstS, OpOffset, OpIndex} :
          \E x \in cs.opLog : x.op = op /\ x.index > 0

\* the instruction dispatched by this step breaks one of its preconditions
Offends ==
    /\ mode # "idle"
    /\ checkError(vm).error = "None"
    /\ vm'.error # "None" \/ vm'.stackError # "None"

\* execute is at the top of its loop with an error flagged by the last instruction
ErrorPending == mode # "idle" /\ checkError(vm).error # "None" /\ last.cmd >= 0

\* C17: when an instruction breaks a precondition, no further instruction is
\* dispatched, execute returns -1, error() is not None and errorAddr is the
\* address of that instruction.
C17_ErrorStopsExecute ==
    [][/\ (Offends /\ vm'.halted) =>
            (vm'.result = -1 /\ vm'.error # "None" /\ vm'.errorAddr = vm.pc)
       /\ ErrorPending =>
            (vm'.halted /\ vm'.result = -1 /\ vm'.error # "None"
             /\ vm'.errorAddr = last.pc)]_vars

\* C17 without the error address, for the errors the check at the top of the
\* loop catches
C17_PendingErrorStops ==
    [][ErrorPending => (vm'.halted /\ vm'.result = -1 /\ vm'.error # "None")]_vars

\* loop() has returned: host.loop is what it returned
LoopReturned == mode = "idle" /\ last.mode = "loop" /\ host.loops > 0

\* C18: loop() returns -1 whenever the run ends with an error, the loop entry
\* that does not begin with SetFrame and the stack error flagged by the final
\* Return included; any other value it returns means error() is None.
C18_LoopReportsError ==
    LoopReturned =>
        /\ (vm.error # "None" \/ vm.stackError # "None") => host.loop = -1
        /\ host.loop # -1 => vm.error = "None"

\* loop() returned a value from a run without error
C18_LoopReturnedValue ==
    LoopReturned /\ vm.error = "None" /\ vm.stackError = "None" /\ host.loop = -2

\* Compiler::compile has returned
Compiled == host.compile # NotCalled

\* C19: compile returns false and reports the error kind whenever a compile
\* error was raised, while parsing or while emitting (StackTooBig); it returns
\* true only when the executable holds the complete image.
C19_CompileReportsErrors ==
    Compiled =>
        /\ cs.error # "None" => (host.compile = 0 /\ host.error = cs.error)
        /\ host.compile = 1 => (executable # <<>> /\ executable = emit(cs))

\* C19 for the errors raised while parsing
C19_ParseErrorsReported ==
    Compiled =>
        /\ (cs.error # "None" /\ cs.error # "StackTooBig") =>
                (host.compile = 0 /\ host.error = cs.error)
        /\ (host.compile = 1 /\ cs.error = "None") =>
                (executable # <<>> /\ executable = emit(cs))

\* C20: inside a function a name is looked up among the locals first: when a
\* local (parameter or variable) and a global share a name, every use inside
\* the function refers to the local.
C20_LocalShadowsGlobal ==
    \A x \in cs.symLog : x.local => x.storage = "Local"

\* what the lookup does: a global of the name wins, a local is found when
\* no global has the name
C20_GlobalFoundFirst ==
    \A x \in cs.symLog :
        /\ x.global => x.storage \in {"Global", "Const"}
        /\ (x.local /\ ~x.global) => x.storage = "Local"

(***************************************************************************)
(* C21: native calls                                                       *)
(***************************************************************************)
CoreIds ==
    {IdAnimate, IdParam, IdFloat, IdInt, IdRandomInt, IdRandomFloat, IdInitArray,
     IdMinInt, IdMinFloat, IdMaxInt, IdMaxFloat}

\* execute is about to dispatch CallNative id with the arguments on the stack
AtNative(id) ==
    /\ mode # "idle"
    /\ checkError(vm).error = "None"
    /\ fetchCmd(vm) = OpCallNative
    /\ getUInt8ROM(vm.pc + 1) = id
    /\ vm.sp >= nativeNumParams(id)
    /\ vm.sp + 2 <= vm.size

\* t is s after a native call of id: the arguments are gone, one word is
\* pushed, execution resumes after the operand and bp is what it was
NativeEffect(s, t, id) ==
    /\ ~t.halted
    /\ t.sp = s.sp - nativeNumParams(id) + 1
    /\ t.pc = ToInt16(s.pc + 2)
    /\ t.bp = s.bp

NativeResult(s, t, id) ==
    /\ id = IdMinInt => t.stack[t.sp - 1] = MinOf(s.stack[s.sp - 2], s.stack[s.sp - 1])
    /\ id = IdMaxInt => t.stack[t.sp - 1] = MaxOf(s.stack[s.sp - 2], s.stack[s.sp - 1])

\* C21: for every core native function id, CallNative pops the function's
\* arity arguments, pushes one word that is the function's result (MinInt
\* and MaxInt the smaller and the larger of two signed arguments), resumes at
\* the byte after the operand and leaves bp unchanged
C21_NativeCallEffect ==
    [][\A id \in CoreIds :
         AtNative(id) => NativeEffect(vm, vm', id) /\ NativeResult(vm, vm', id)]_vars

\* the functions that hand their result to restoreFrame and write no memory
C21_ReturnValNatives ==
    [][\A id \in {IdParam, IdFloat, IdInt, IdRandomInt, IdRandomFloat} :
         AtNative(id) => NativeEffect(vm, vm', id)]_vars

C21_NativeCalled == last.cmd = OpCallNative /\ ~vm.halted /\ vm.error = "None"

(***************************************************************************)
(* C22: Param                                                              *)
(***************************************************************************)
\* the argument of a one-argument native call about to run, and the word
\* the call left on top
NativeArg == vm.stack[vm.sp - 1]
NativeTop(t) == t.stack[t.sp - 1]

\* C22: Param(i) returns params[i] when i is below the number of parameter
\* bytes passed to the last init(), and 0 otherwise
C22_ParamInRangeOrZero ==
    [][AtNative(IdParam) =>
         NativeTop(vm') = IF NativeArg >= 0 /\ NativeArg < vm.paramsSize
                          THEN vm.params[NativeArg + 1] ELSE 0]_vars

\* an index below the number of bytes passed yields the byte passed
C22_ParamOfPassedByte ==
    [][AtNative(IdParam) /\ NativeArg >= 0 /\ NativeArg < Len(vm.params) =>
         NativeTop(vm') = vm.params[NativeArg + 1]]_vars

C22_ParamPassed ==
    /\ last.cmd = OpCallNative
    /\ vm.paramsSize > 0
    /\ ~vm.halted
    /\ NativeTop(vm) = vm.params[1]

(***************************************************************************)
(* C23: InitArray                                                          *)
(***************************************************************************)
\* the arguments of the InitArray call about to run
InitAddr == vm.stack[vm.sp - 3]
InitValue == vm.stack[vm.sp - 2]
InitCount == vm.stack[vm.sp - 1]

\* InitArray is about to run on n words that lie inside the global array
AtInitGlobal ==
    /\ AtNative(IdInitArray)
    /\ InitAddr >= GlobalStart /\ InitAddr < LocalStart
    /\ InitCount >= 0
    /\ InitAddr - GlobalStart + InitCount <= vm.globalSize

\* InitArray is about to run on n words that are locals of the calling frame
AtInitLocal ==
    /\ AtNative(IdInitArray)
    /\ InitAddr >= LocalStart /\ InitAddr <= 255
    /\ InitCount >= 0
    /\ vm.bp + InitAddr - LocalStart + InitCount <= vm.sp - 3

\* t is s with the n words from a on set to v in the array words
Filled(before, after, a, v, n) ==
    \A x \in DOMAIN before :
        after[x] = IF x >= a /\ x < a + n THEN v ELSE before[x]

\* the words of the stack below the arguments
Below == [x \in 0 .. vm.sp - 4 |-> vm.stack[x]]
BelowAfter == [x \in 0 .. vm.sp - 4 |-> vm'.stack[x]]

\* C23: InitArray(addr, v, n) sets each of the n words starting at addr to
\* v, for every 32-bit v, and changes no other word of global or stack memory
C23_InitArrayFills ==
    [][/\ AtInitGlobal =>
            /\ Filled(vm.global, vm'.global, InitAddr - GlobalStart, InitValue, InitCount)
            /\ BelowAfter = Below
       /\ AtInitLocal =>
            /\ Filled(Below, BelowAfter, vm.bp + InitAddr - LocalStart, InitValue, InitCount)
            /\ vm'.global = vm.global]_vars

\* the local part of the claim alone
C23_InitLocalFills ==
    [][AtInitLocal =>
            /\ Filled(Below, BelowAfter, vm.bp + InitAddr - LocalStart, InitValue, InitCount)
            /\ vm'.global = vm.global]_vars

\* global words are filled with the low byte of v in each of their bytes
C23_GlobalByteFill ==
    [][AtInitGlobal =>
            /\ Filled(vm.global, vm'.global, InitAddr - GlobalStart,
                      memsetWord(InitValue), InitCount)
            /\ BelowAfter = Below]_vars

C23_InitArrayCalled ==
    /\ last.cmd = OpCallNative
    /\ mode # "idle"
    /\ vm.globalSize > 0
    /\ vm.global[0] = memsetWord(1)

(***************************************************************************)
(* C24: init                                                               *)
(***************************************************************************)
\* the command table of the image as init walks it: the offsets of its
\* entries, and the offset of the code after the terminating zero
TableStart == ToU16(ConstOffset + getUInt8ROM(4) * 4)

RECURSIVE EntriesFrom(_)
EntriesFrom(at) == IF rom(at) = 0 THEN {} ELSE {at} \cup EntriesFrom(at + 6)

RECURSIVE CodeAfter(_)
CodeAfter(at) == IF rom(at) = 0 THEN at + 1 ELSE CodeAfter(at + 6)

\* a command name of one character as the host passes it, and the seven
\* bytes of the image at an entry
NameOf(cmd) == <<cmd, 0, 0, 0, 0, 0, 0>>
NameAt(at) == [k \in 1 .. 7 |-> rom(at + k - 1)]

LastOf24(ats) == CHOOSE at \in ats : \A other \in ats : other <= at

\* what the claim says of init called with size bytes in s, leaving t, when
\* the entries in found are those that match
InitContract(found, size, t) ==
    IF found = {}
    THEN t.halted /\ t.error = "CmdNotFound" /\ t.pc = vm.pc /\ t.sp = 0
    ELSE LET e == LastOf24(found)
             entry == getUInt16ROM(e + 2) + CodeAfter(TableStart)
         IN  IF getUInt8ROM(e + 1) # size
             THEN t.halted /\ t.error = "WrongNumberOfArgs" /\ t.pc = vm.pc /\ t.sp = 0
             ELSE IF getUInt8ROM(entry) # OpSetFrame
             THEN t.halted /\ t.error = "ExpectedSetFrame" /\ t.pc = vm.pc /\ t.sp = 0
             ELSE ~t.halted /\ t.error = "None" /\ t.pc = entry

\* C24: init(cmd, params, size) scans the command table for the entry whose
\* 7-byte name matches cmd and fails, returning false and executing no
\* instruction, with CmdNotFound when no entry matches, WrongNumberOfArgs
\* when size differs from the entry's parameter count and ExpectedSetFrame
\* when the init address does not hold SetFrame; otherwise it starts
\* execution at init_entry + code_offset
C24_InitByName ==
    [][\A cmd \in Commands, buf \in Buffers, j \in Junk :
         HostInit(cmd, buf, j) =>
            InitContract({at \in EntriesFrom(TableStart) : NameAt(at) = NameOf(cmd)},
                         Len(buf), vm')]_vars

\* the same contract for the entry whose first byte is the command byte
C24_InitByCommandByte ==
    [][\A cmd \in Commands, buf \in Buffers, j \in Junk :
         HostInit(cmd, buf, j) =>
            InitContract({at \in EntriesFrom(TableStart) : rom(at) = cmd},
                         Len(buf), vm')]_vars

C24_InitRefused == last.cmd = HostInitCall /\ mode = "idle" /\ vm.error = "ExpectedSetFrame"

(***************************************************************************)
(* C25: constants                                                          *)
(***************************************************************************)
\* execute is about to dispatch Push of a constant id
AtPushConst ==
    /\ mode # "idle"
    /\ checkError(vm).error = "None"
    /\ fetchCmd(vm) = OpPush
    /\ getUInt8ROM(vm.pc + 1) < GlobalStart
    /\ vm.sp < vm.size

\* the little-endian word at byte a of the image
ImageWord(a) == FromBytes(rom(a), rom(a + 1), rom(a + 2), rom(a + 3))

\* t is the interpreter after Push k: the word pushed is the image word at
\* k * 4 + offset, and the k-th word the engine put into its constant pool
PushedConst(t, k, offset) ==
    /\ t.sp = vm.sp + 1
    /\ t.stack[t.sp - 1] = ImageWord(k * 4 + offset)
    /\ k < Len(cs.rom32) => t.stack[t.sp - 1] = cs.rom32[k + 1]

\* C25 as stated: a Push of constant id k reads the word at image byte
\* offset k * 4 + 12, and that word is the k-th word of the constants area
C25_ConstOffsetTwelve ==
    [][AtPushConst => PushedConst(vm', getUInt8ROM(vm.pc + 1), 12)]_vars

\* C25: a Push of constant id k reads the 32-bit little-endian word at image
\* byte offset k * 4 + ConstOffset, where ConstOffset is 8, and that word is
\* the k-th word of the constants area written by the emitter
C25_ConstRoundTrip ==
    [][AtPushConst => PushedConst(vm', getUInt8ROM(vm.pc + 1), ConstOffset)]_vars

C25_ConstPushed ==
    /\ last.cmd = OpPush
    /\ mode # "idle"
    /\ getUInt8ROM(last.pc + 1) \in 1 .. Len(cs.rom32) - 1
    /\ vm.error = "None"
    /\ vm.stack[vm.sp - 1] = cs.rom32[getUInt8ROM(last.pc + 1) + 1]
    /\ vm.stack[vm.sp - 1] > 255

(***************************************************************************)
(* C26: addresses outside the memory they name                             *)
(***************************************************************************)
\* execute is about to dispatch cmd
AtOp(cmd) == mode # "idle" /\ checkError(vm).error = "None" /\ fetchCmd(vm) = cmd

\* the address Push and Pop take from their operand, PushDeref from the top
\* of the stack and PopDeref from the word below it
AccessAddress ==
    IF fetchCmd(vm) \in {OpPush, OpPop} THEN fromId(getUInt8ROM(vm.pc + 1))
    ELSE IF fetchCmd(vm) = OpPushDeref THEN idAddress(vm.stack[vm.sp - 1])
    ELSE idAddress(vm.stack[vm.sp - 2])

\* sp when the access is made: the loads read before they push, the stores
\* write after they popped
AccessSp ==
    CASE fetchCmd(vm) = OpPush -> vm.sp
      [] fetchCmd(vm) \in {OpPop, OpPushDeref} -> vm.sp - 1
      [] OTHER -> vm.sp - 2

AtAccess ==
    /\ \E cmd \in {OpPush, OpPop, OpPushDeref, OpPopDeref} : AtOp(cmd)
    /\ vm.sp >= (IF fetchCmd(vm) = OpPush THEN 0 ELSE IF fetchCmd(vm) = OpPopDeref THEN 2 ELSE 1)
    /\ vm.sp < vm.size

GlobalOutside == AccessAddress.type = "Global" /\ AccessAddress.addr >= vm.globalSize
LocalOutside ==
    /\ AccessAddress.type = "LocalRel"
    /\ vm.bp + AccessAddress.addr >= AccessSp
ConstStore == AccessAddress.type = "Const" /\ fetchCmd(vm) \in {OpPop, OpPopDeref}

\* C26: a Push, Pop, PushDeref or PopDeref whose effective address lies
\* outside the memory it names (a global index at or beyond the global size,
\* a local index outside the live stack, a store to a Const address) sets an
\* error and modifies no word outside the allocated arrays
C26_OutsideSetsError ==
    [][AtAccess /\ (GlobalOutside \/ LocalOutside \/ ConstStore) =>
         checkError(vm').error # "None" /\ vm'.ub = vm.ub]_vars

\* the parts of the claim, each alone
C26_GlobalOutsideSetsError ==
    [][AtAccess /\ GlobalOutside => checkError(vm').error # "None" /\ vm'.ub = vm.ub]_vars

C26_ConstStoreSetsError ==
    [][AtAccess /\ ConstStore => checkError(vm').error # "None"]_vars

\* a local outside the live stack is found by Stack::ensureLocal
C26_LocalOutsideSetsError ==
    [][AtAccess /\ LocalOutside => vm'.stackError \in {"StackOutOfRange", "StackOverrun"}]_vars

\* and the access is not made when it is found
C26_LocalOutsideNotAccessed ==
    [][AtAccess /\ LocalOutside => vm'.ub = vm.ub]_vars

C26_LocalRefused == last.cmd = OpPush /\ vm.stackError = "StackOutOfRange"

(***************************************************************************)
(* C27: frame integrity                                                    *)
(***************************************************************************)
\* the index of the saved return pc of frame f; the saved bp is the word above
SavedAt(f) == f.bp + f.p + f.l

\* the saved words of f are on the stack of s
SavedHeld(s, f) ==
    /\ s.sp >= SavedAt(f) + 2
    /\ InArray(s, SavedAt(f) + 1)
    /\ s.stack[SavedAt(f)] = f.retpc
    /\ s.stack[SavedAt(f) + 1] = f.callerBp

\* execute is about to dispatch an instruction other than Return inside a
\* function whose saved words are in place
InFrame ==
    /\ mode # "idle"
    /\ checkError(vm).error = "None"
    /\ frames # <<>>
    /\ vm.bp = Top(frames).bp
    /\ SavedHeld(vm, Top(frames))
    /\ fetchCmd(vm) # OpReturn

\* C27: inside a function no instruction other than Return removes or
\* overwrites the frame's saved return pc and saved bp; a Drop, Pop or
\* operator that would take sp below the saved-bp slot sets StackUnderrun
\* instead of consuming the saved words
C27_FrameIntegrity ==
    [][InFrame => SavedHeld(vm', Top(frames)) \/ vm'.stackError = "StackUnderrun"]_vars

\* the second half for Drop alone: a Drop with nothing above the saved bp
C27_DropAtFrameUnderruns ==
    [][InFrame /\ fetchCmd(vm) = OpDrop /\ vm.sp = SavedAt(Top(frames)) + 2 =>
         vm'.stackError = "StackUnderrun"]_vars

\* the first half for Pop alone: a Pop into a local leaves the saved words
C27_PopKeepsSaved ==
    [][InFrame /\ fetchCmd(vm) = OpPop /\ vm.sp > SavedAt(Top(frames)) + 2 =>
         SavedHeld(vm', Top(frames))]_vars

\* StackUnderrun is set when a pop finds the whole stack empty
C27_EmptyStackUnderruns ==
    [][AtOp(OpDrop) /\ vm.sp = 0 => vm'.stackError = "StackUnderrun"]_vars

C27_Underrun == last.cmd = OpDrop /\ vm.stackError = "StackUnderrun" /\ vm.sp < 0

(***************************************************************************)
(* C28: break and continue                                                 *)
(***************************************************************************)
\* the compiled loops whose code holds the byte at addr
Enclosing(addr) == {l \in cs.loopLog : l.start <= addr /\ addr < l.brk}

\* the innermost of them: none of the others starts after it
Innermost(addr) ==
    CHOOSE l \in Enclosing(addr) : \A m \in Enclosing(addr) : m.start <= l.start

\* the label of loop l that a break or a continue in it has to reach
OwnLabel(l, type) == IF type = "Break" THEN l.brk ELSE l.cont

\* the patches made at the site
PatchesAt(addr) == {p \in cs.jumpLog : p.addr = addr}

\* the operand bytes at the site hold the offset from the site to label
Resolved(addr, label) ==
    /\ CodeAt(addr + 1) = (label - addr - 2) % 256
    /\ BitOpLow("and", CodeAt(addr), ((label - addr - 2) \div 256) % 16, 8)
         = ((label - addr - 2) \div 256) % 16

\* C28: break and continue bind to the innermost enclosing loop: each is
\* patched, when that loop ends, to that loop's own break or continuation
\* label and never to an outer loop's; after any for, while or loop statement
\* is compiled the jump-context stack has the depth it had before the
\* statement, and no break or continue site is left unresolved
C28_JumpsBindInnermost ==
    /\ \A l \in cs.loopLog : l.after = l.before
    /\ \A s \in cs.siteLog :
         Enclosing(s.addr) # {} =>
            /\ PatchesAt(s.addr) # {}
            /\ \A p \in PatchesAt(s.addr) :
                 /\ p.label = OwnLabel(Innermost(s.addr), s.type)
                 /\ p.stmt = Innermost(s.addr).stmt
                 /\ p.type = s.type
            /\ Ok(cs) => Resolved(s.addr, OwnLabel(Innermost(s.addr), s.type))
    /\ host.compile = 1 =>
         /\ cs.jumpList = <<>>
         /\ \A s \in cs.siteLog : Enclosing(s.addr) # {}

\* a compiled program with a break in an inner loop and one in the outer
\* loop around it, reaching different labels
C28_NestedBreaks ==
    /\ host.compile = 1
    /\ \E s \in cs.siteLog, u \in cs.siteLog :
         /\ s.type = "Break" /\ u.type = "Break"
         /\ Enclosing(s.addr) # {} /\ Enclosing(u.addr) # {}
         /\ Innermost(s.addr) # Innermost(u.addr)
         /\ Innermost(s.addr) \notin Enclosing(u.addr)
         /\ Innermost(u.addr) \in Enclosing(s.addr)


(***************************************************************************)
(* C29: emitted opcodes and the opcode table                               *)
(***************************************************************************)
\* CompileEngine::opDataFromOp: the entries of the table for op
opDataFromOp(op) == {e \in opcodes : e[1] = op}

\* Opcodes.h, OpParams: whether the shape puts bits into the opcode byte
ParIndexed(par) == par \in {"Index", "Target", "Index_Sz_S"}
\* Opcodes.h, OpParams: whether the shape takes after bytes behind the opcode
ParAfter(par, after) ==
    CASE par \in {"None", "Index"} -> after = 0
      [] par \in {"Id", "I", "Const", "Target", "P_L", "Sz"} -> after = 1
      [] par = "Index_Sz_S" -> after >= 1

\* the instructions emitted so far
Emitted == cs.emitLog
EmittedOps == {e.op : e \in Emitted}

\* C29: every opcode the Clover engine emits has an entry in the opcode table,
\* and the entry's operand shape is the shape of the bytes emitted: the same
\* number of bytes after the opcode, and bits in the opcode byte exactly when
\* the shape has them
C29_EmittedOpsInTable ==
    \A e \in Emitted :
        \E d \in opDataFromOp(e.op) : ParAfter(d[2], e.after) /\ ParIndexed(d[2]) = e.indexed

\* every emitted opcode has an entry
C29_EveryOpHasEntry == \A e \in Emitted : opDataFromOp(e.op) # {}

\* every emitted opcode but Log has an entry, with the number of bytes emitted
C29_AllButLogInTable ==
    \A e \in Emitted :
        e.op # OpLog => \E d \in opDataFromOp(e.op) : ParAfter(d[2], e.after)

\* the emitted opcodes that carry bits the table's shape does not have
C29_UntabledIndexBits ==
    \A e \in Emitted :
        (\E d \in opDataFromOp(e.op) : ParIndexed(d[2]) # e.indexed)
            => e.op \in {OpSetFrame, OpIf, OpJump}

\* a log statement was compiled; a binary operator and a compound assignment were
C29_LogEmitted ==
    /\ [op |-> OpLog, indexed |-> TRUE, after |-> 3] \in Emitted
    /\ opDataFromOp(OpLog) = {}
C29_OperatorsEmitted ==
    /\ [op |-> OpAddInt, indexed |-> FALSE, after |-> 0] \in Emitted
    /\ {OpDup, OpPushDeref, OpPopDeref} \subseteq EmittedOps

(***************************************************************************)
(* C30: increment and decrement                                            *)
(***************************************************************************)
IncDecOps == {OpPreIncInt, OpPreDecInt, OpPostIncInt, OpPostDecInt}
AtIncDec == \E cmd \in IncDecOps : AtOp(cmd)

\* the address on top of the stack, and whether it names a word of the global
\* array or of the frame below the address itself
RefAddress == idAddress(vm.stack[vm.sp - 1])
RefNamesWord ==
    /\ vm.sp >= 1 /\ vm.sp <= vm.size
    /\ \/ RefAddress.type = "Global" /\ RefAddress.addr < vm.globalSize
       \/ RefAddress.type = "LocalRel" /\ vm.bp + RefAddress.addr < vm.sp - 1

\* the word of s at the address
RefWord(s) ==
    IF RefAddress.type = "Global" THEN s.global[RefAddress.addr]
    ELSE s.stack[vm.bp + RefAddress.addr]

\* v + 1 and v - 1 modulo 2^32, as int32_t
Succ32(v) == IF v = MaxInt32 THEN MinInt32 ELSE v + 1
Pred32(v) == IF v = MinInt32 THEN MaxInt32 ELSE v - 1
Stepped(v) == IF fetchCmd(vm) \in {OpPreIncInt, OpPostIncInt} THEN Succ32(v) ELSE Pred32(v)

\* the words of s other than the one at the address and the top of the stack
OtherGlobals(s) ==
    [a \in {b \in 0 .. vm.globalSize - 1 : RefAddress.type = "Global" => b # RefAddress.addr}
        |-> s.global[a]]
OtherStack(s) ==
    [a \in {b \in 0 .. vm.size - 1 :
                /\ b # vm.sp - 1
                /\ RefAddress.type = "LocalRel" => b # vm.bp + RefAddress.addr}
        |-> s.stack[a]]

\* C30: PreIncInt, PreDecInt, PostIncInt and PostDecInt, run on the address of
\* a word, leave that word one higher or lower modulo 2^32 and replace the
\* address by the new value (Pre) or the old value (Post); sp is unchanged, no
\* other word of the globals or the stack changes, and no error is set
C30_IncDec ==
    [][AtIncDec /\ RefNamesWord =>
         /\ RefWord(vm') = Stepped(RefWord(vm))
         /\ vm'.stack[vm.sp - 1] =
                (IF fetchCmd(vm) \in {OpPreIncInt, OpPreDecInt} THEN Stepped(RefWord(vm))
                 ELSE RefWord(vm))
         /\ vm'.sp = vm.sp /\ vm'.bp = vm.bp
         /\ OtherGlobals(vm') = OtherGlobals(vm)
         /\ OtherStack(vm') = OtherStack(vm)
         /\ checkError(vm').error = "None" /\ vm'.ub = vm.ub
         /\ vm'.pc = vm.pc + 1]_vars

\* on the address of a constant the value is stepped and pushed, nothing is
\* stored and no error is set
C30_ConstRefOnlyPushes ==
    [][AtIncDec /\ vm.sp >= 1 /\ vm.sp <= vm.size /\ RefAddress.type = "Const" =>
         /\ vm'.stack[vm.sp - 1] = Stepped(loadInt(vm, RefAddress, 0, 0))
         /\ vm'.global = vm.global /\ OtherStack(vm') = OtherStack(vm)
         /\ checkError(vm').error = "None"]_vars
C30_ConstRefRan == mode # "idle" /\ last.cmd = OpPreIncInt /\ getUInt8ROM(vm.pc - 2) = 0

\* cmd ran on the address PushRef pushed, leaving w at the address and t on top
IncDecRan(cmd, type, w, t) ==
    /\ mode # "idle" /\ last.cmd = cmd /\ vm.sp >= 1
    /\ idAddress(getUInt8ROM(vm.pc - 2)).type = type
    /\ getUInt8ROM(vm.pc - 3) = OpPushRef
    /\ vm.stack[vm.sp - 1] = t
    /\ LET a == idAddress(getUInt8ROM(vm.pc - 2))
       IN  (IF type = "Global" THEN vm.global[a.addr] ELSE vm.stack[vm.bp + a.addr]) = w
\* a post increment of the largest int32_t in a local, a pre decrement of the
\* smallest in a global, a post decrement of 3
C30_IncDecRan == IncDecRan(OpPostIncInt, "LocalRel", MinInt32, MaxInt32)
C30_PreDecWrapped == IncDecRan(OpPreDecInt, "Global", MaxInt32, MaxInt32)
C30_PostDecRan == IncDecRan(OpPostDecInt, "Global", 2, 3)

\* x = 3; ++x * 2 leaves 8 on the stack and 4 in x
C30_ExampleRan ==
    /\ mode # "idle" /\ last.cmd = OpMulInt
    /\ getUInt8ROM(vm.pc - 3) = OpPreIncInt
    /\ vm.stack[vm.sp - 1] = 8
    /\ vm.stack[vm.bp + idAddress(getUInt8ROM(vm.pc - 4)).addr] = 4


\* function int Init() { int x = 3; return ++x * 2; } compiled and run returns 8
C30_CompiledExample ==
    src.name = "preinc" /\ mode = "idle" /\ last.mode = "init" /\ last.cmd = OpReturn
        => vm.result = 8 /\ vm.error = "None"
C30_CompiledExampleRan ==
    src.name = "preinc" /\ mode = "idle" /\ last.mode = "init" /\ last.cmd = OpReturn


(***************************************************************************)
(* C31: compound assignment                                                *)
(***************************************************************************)
AssignCompiled == src.name = "assign" /\ Loaded

\* the id of the assigned variable, and the code that leaves its address
TargetId == CASE src.target = "x" -> LocalStart
              [] src.target = "g" -> GlobalStart
              [] src.target = "arr" -> GlobalStart + 2
TargetCode ==
    IF src.target = "arr" THEN <<OpPushRef, GlobalStart + 1, OpPushIntConstS + 1, OpIndex + 1>>
    ELSE <<OpPushRef, TargetId>>

\* the code of y - 2
ValueCode == <<OpPush, LocalStart + 1, OpPushIntConstS + 2, OpSubInt>>

\* 6 op 3
AssignResult(token) ==
    CASE token = "+=" -> 9
      [] token = "-=" -> 3
      [] token = "*=" -> 18
      [] token = "/=" -> 2
      [] token = "&=" -> 2
      [] token = "|=" -> 7
      [] token = "^=" -> 5

\* the first and last byte of the statement in the image
AssignFirst(a) == vm.codeOffset + a.opAt - Len(ValueCode) - 2 - Len(TargetCode)
AssignCode(a) == [k \in 1 .. a.end + vm.codeOffset - AssignFirst(a) |->
                      getUInt8ROM(AssignFirst(a) + k - 1)]

\* the variables of Init and the globals it assigns: x, y, g, arr[1]
VarsNow == <<vm.stack[vm.bp], vm.stack[vm.bp + 1], vm.global[0], vm.global[2]>>
VarsAfter(token) ==
    <<IF src.target = "x" THEN AssignResult(token) ELSE 6, 5,
      IF src.target = "g" THEN AssignResult(token) ELSE 6,
      IF src.target = "arr" THEN AssignResult(token) ELSE 6>>

\* the stack depth of Init between statements: two locals, the saved pc and bp
RestingSp == vm.bp + 4

AssignAbout(a) == mode = "init" /\ vm.pc = AssignFirst(a) /\ vm.error = "None"
AssignDone(a) ==
    /\ mode = "init" /\ last.cmd = OpPopDeref
    /\ last.pc = vm.codeOffset + a.end - 1

\* C31: x op= e is compiled to PushRef x; Dup; PushDeref; code of e; op;
\* PopDeref with the expression stack left as before the statement; run, it
\* stores (old x) op (value of e) in x, changes no other variable and leaves
\* the stack depth as it was; the address of x is computed once
C31_CompoundAssignment ==
    AssignCompiled =>
        \A a \in cs.asgLog :
            /\ a.token = src.token
            /\ AssignCode(a) = TargetCode \o <<OpDup, OpPushDeref>> \o ValueCode
                                   \o <<opInfo(a.token).intOp, OpPopDeref>>
            /\ a.after = a.depth - 1 /\ a.after = 0
            /\ AssignAbout(a) => VarsNow = <<6, 5, 6, 6>> /\ vm.sp = RestingSp
            /\ AssignDone(a) =>
                   /\ VarsNow = VarsAfter(a.token)
                   /\ vm.sp = RestingSp
                   /\ checkError(vm).error = "None" /\ ~vm.ub

\* x ^= y - 2 ran on the local x, and g /= y - 2 on the global
C31_AssignRan ==
    /\ AssignCompiled /\ src.token = "^=" /\ src.target = "x"
    /\ \E a \in cs.asgLog : AssignDone(a) /\ vm.stack[vm.bp] = 5
C31_GlobalAssignRan ==
    /\ AssignCompiled /\ src.token = "/=" /\ src.target = "g"
    /\ \E a \in cs.asgLog : AssignDone(a) /\ vm.global[0] = 2
C31_IndexedAssignRan ==
    /\ AssignCompiled /\ src.token = "-=" /\ src.target = "arr"
    /\ \E a \in cs.asgLog : AssignDone(a) /\ vm.global[2] = 3


(***************************************************************************)
(* C32: the reference to a field of an element of an array of structs      *)
(***************************************************************************)
StructCompiled == src.name = "struct" /\ Loaded
\* Offset has just run in Init
OffsetRan == mode = "init" /\ last.cmd = OpOffset /\ vm.sp >= 1

\* C32: for qa[i].f, qa an array of struct Q, the reference left on the stack
\* is base(qa) + i * size(Q) + index(f), whatever the number of fields of Q
C32_StructElementRef ==
    StructCompiled /\ OffsetRan =>
        vm.stack[vm.sp - 1] = GlobalStart + src.i * src.n + src.f

\* the operands of the Index and Offset instructions of Init, which follow
\* SetFrame, PushRef qa and the push of i, are the size and the field index
\* modulo 16
C32_OperandsMasked ==
    StructCompiled =>
        /\ getUInt8ROM(vm.codeOffset + 5) = OpIndex + (src.n % 16)
        /\ getUInt8ROM(vm.codeOffset + 6) = OpOffset + (src.f % 16)
        /\ OffsetRan => vm.stack[vm.sp - 1] = GlobalStart + src.i * (src.n % 16) + (src.f % 16)

\* with at most 15 fields the reference is the claimed one
C32_SmallStructRef ==
    StructCompiled /\ OffsetRan /\ src.n < 16 =>
        vm.stack[vm.sp - 1] = GlobalStart + src.i * src.n + src.f

\* qa[1].f0 of a struct of 16 fields refers to qa[0].f0
C32_SixteenFields ==
    /\ StructCompiled /\ OffsetRan /\ src.n = 16 /\ src.i = 1 /\ src.f = 0
    /\ vm.stack[vm.sp - 1] = GlobalStart
C32_FifteenFields ==
    /\ StructCompiled /\ OffsetRan /\ src.n = 15 /\ src.i = 1 /\ src.f = 14
    /\ vm.stack[vm.sp - 1] = GlobalStart + 29


(***************************************************************************)
(* C33: the indices of the stack array                                     *)
(***************************************************************************)
InStack(a) == a >= 0 /\ a < vm.size

\* the indices into _stack that the instruction about to run uses, for the
\* instructions that only push or pop
PushOps == {OpPush, OpPushIntConst, OpPushIntConstS, OpPushRef}
StackIndices ==
    CASE fetchCmd(vm) \in PushOps -> {vm.sp}
      [] fetchCmd(vm) = OpDrop -> {vm.sp - 1}
      [] fetchCmd(vm) = OpDup -> {vm.sp - 1, vm.sp}
      [] fetchCmd(vm) = OpSwap -> {vm.sp - 1, vm.sp - 2}
      [] OTHER -> {}

\* C33: every access of the Stack class to its array uses an index in
\* [0, size), and 0 <= sp <= size in every state, also after the step that
\* detects an overrun or underrun
C33_StackIndicesInBounds ==
    [][/\ mode # "idle" /\ checkError(vm).error = "None" => \A a \in StackIndices : InStack(a)
       /\ vm'.sp >= 0 /\ vm'.sp <= vm'.size]_vars

\* pop on the empty stack sets StackUnderrun, moves sp to -1 and reads _stack[-1]
C33_PopOnEmpty ==
    [][AtOp(OpDrop) /\ vm.sp = 0 =>
         vm'.stackError = "StackUnderrun" /\ vm'.sp = 0 - 1 /\ vm'.error = "None"]_vars
\* push on the full stack sets StackOverrun, writes _stack[size] and moves sp
\* past size
C33_PushOnFull ==
    [][(\E cmd \in PushOps : AtOp(cmd)) /\ vm.sp = vm.size /\ fetchCmd(vm) # OpPush =>
         vm'.stackError = "StackOverrun" /\ vm'.sp = vm.size + 1 /\ vm'.ub]_vars
\* the error is raised before the next instruction runs
C33_DetectedNext ==
    [][mode # "idle" /\ vm.stackError # "None" /\ vm.error = "None" =>
         vm'.halted /\ vm'.error = vm.stackError /\ vm'.sp = vm.sp]_vars

C33_Underrun == mode # "idle" /\ last.cmd = OpDrop /\ vm.sp < 0
C33_Overrun == last.cmd \in PushOps /\ vm.sp > vm.size /\ vm.stackError = "StackOverrun"


(***************************************************************************)
(* C34: Offset and Index and the region of the reference                   *)
(***************************************************************************)
\* the reference Offset and Index are about to change, and its place
RefPlace == IF fetchCmd(vm) = OpOffset THEN vm.sp - 1 ELSE vm.sp - 2
AtRefOp ==
    /\ AtOp(OpOffset) \/ AtOp(OpIndex)
    /\ RefPlace >= 0 /\ vm.sp <= vm.size
RefBefore == vm.stack[RefPlace]
\* what the instruction adds to it
RefStep == IF fetchCmd(vm) = OpOffset THEN fetchIndex(vm)
           ELSE vm.stack[vm.sp - 1] * fetchIndex(vm)

\* C34: Offset i and Index n leave a reference to the same region (Const,
\* Global or Local) as the reference they found on the stack
C34_RegionKept ==
    [][AtRefOp => idAddress(vm'.stack[RefPlace]).type = idAddress(RefBefore).type]_vars

\* the word is the sum, and the region is kept when the sum stays among the
\* ids of the region
C34_WordIsSum ==
    [][AtRefOp /\ RefStep >= 0 /\ RefStep < 256 =>
         /\ vm'.stack[RefPlace] = RefBefore + RefStep
         /\ vm'.sp = RefPlace + 1
         /\ (RefBefore % 64) + RefStep < 64
                => idAddress(vm'.stack[RefPlace]).type = idAddress(RefBefore).type]_vars

\* the last global plus one is the first local; the last local plus one is a constant
C34_GlobalBecameLocal ==
    /\ mode # "idle" /\ last.cmd = OpOffset /\ vm.sp >= 1
    /\ vm.stack[vm.sp - 1] = LocalStart /\ getUInt8ROM(vm.pc - 2) = LocalStart - 1
C34_LocalBecameConst ==
    /\ mode # "idle" /\ last.cmd = OpIndex /\ vm.sp >= 1
    /\ idAddress(vm.stack[vm.sp - 1]).type = "Const"
C34_RegionKeptRan ==
    /\ mode # "idle" /\ last.cmd = OpIndex /\ vm.sp >= 1
    /\ vm.stack[vm.sp - 1] = GlobalStart + 9


(***************************************************************************)
(* C35: init and the parameter buffer                                      *)
(***************************************************************************)
\* C35: init writes nothing outside _params: whatever the size argument and
\* whether or not the call fails, at most ParamsSize bytes are copied
C35_InitStaysInParams ==
    [][\A cmd \in Commands, buf \in Buffers, j \in Junk :
         HostInit(cmd, buf, j) =>
             /\ vm'.paramsSize <= ParamsSize
             /\ vm'.ub = vm.ub]_vars

\* init copies size bytes, as many as the caller says; the bytes that fit
\* are in _params and the write is outside exactly when size exceeds it
C35_CopiesSize ==
    [][\A cmd \in Commands, buf \in Buffers, j \in Junk :
         HostInit(cmd, buf, j) =>
             /\ vm'.paramsSize = Len(buf)
             /\ vm'.ub = (vm.ub \/ Len(buf) > ParamsSize)
             /\ \A i \in 1 .. Len(buf) : i <= ParamsSize => vm'.params[i] = buf[i]]_vars

C35_OverflowArgs ==
    /\ last.cmd = HostInitCall /\ vm.paramsSize = ParamsSize + 1 /\ vm.ub
    /\ vm.error = "WrongNumberOfArgs"
C35_OverflowNotFound ==
    /\ last.cmd = HostInitCall /\ vm.paramsSize = ParamsSize + 1 /\ vm.ub
    /\ vm.error = "CmdNotFound"
C35_SmallCopy ==
    /\ last.cmd = HostInitCall /\ vm.paramsSize = 1 /\ ~vm.ub /\ vm.params = <<1>>


(***************************************************************************)
(* C36: an error stays until init is called again                          *)
(***************************************************************************)
\* init or loop has ended with an error, or loop is returning with one
ErrorBefore == host.inits > 0 /\ mode # "init" /\ vm.error # "None"

\* C36: once init or loop has ended with an error, every later loop
\* executes no instruction, changes no global word and returns -1, until
\* init is called again
C36_ErrorAbsorbing ==
    [][ErrorBefore /\ last'.cmd # HostInitCall =>
         /\ vm'.error # "None"
         /\ vm'.global = vm.global
         /\ last'.cmd \in {HostLoopCall, ErrorExit}
         /\ mode' = "idle" => host'.loop = -1]_vars

\* what the code does: no instruction, no change of the globals, and loop
\* returns -1 from execute but false, which is 0, when the byte at
\* _loopStart is not SetFrame
C36_AbsorbingButReturn ==
    [][ErrorBefore /\ last'.cmd # HostInitCall =>
         /\ vm'.error # "None"
         /\ vm'.global = vm.global
         /\ last'.cmd \in {HostLoopCall, ErrorExit}
         /\ mode' = "idle" =>
               host'.loop = IF last'.cmd = HostLoopCall THEN 0 ELSE -1
         /\ last'.cmd = HostLoopCall =>
               (mode' = "idle") = (getUInt8ROM(vm.loopStart) # OpSetFrame)]_vars

\* init, called in a state with an error, leaves the stack empty and
\* without error, or holding the dummy return address when it goes on to
\* execute; the only error left is one this call of init has found
C36_InitClears ==
    mode = "idle" /\ executable # <<>> /\ vm.error # "None" =>
        \A cmd \in Commands, buf \in Buffers, j \in Junk :
            LET s1 == init(vm, cmd, buf, j)
            IN  /\ s1.bp = 0
                /\ s1.size > 0 => s1.stackError = "None"
                /\ s1.sp = IF s1.halted THEN 0 ELSE 1
                /\ s1.error \in {"None", "CmdNotFound", "WrongNumberOfArgs", "ExpectedSetFrame"}
                /\ s1.halted = (s1.error # "None")

\* loop after a failed init returned 0; loop after an error returned -1
C36_LoopReturnedFalse ==
    /\ mode = "idle" /\ last.cmd = HostLoopCall /\ host.loops = 1
    /\ vm.error = "ExpectedSetFrame" /\ host.loop = 0 /\ host.init = 0
C36_LoopReturnedError ==
    /\ mode = "idle" /\ last.cmd = ErrorExit /\ last.mode = "loop" /\ host.loops = 2
    /\ host.loop = -1 /\ vm.error # "None" /\ last.pc = vm.loopStart
C36_ErrorToClear ==
    /\ mode = "idle" /\ executable # <<>> /\ vm.error # "None" /\ vm.sp > 1
    /\ vm.stackError # "None"


(***************************************************************************)
(* C37: the layout of the image, as emitted and as loaded                  *)
(***************************************************************************)
\* where emit wrote the first byte of _rom8: behind the header, the
\* constants and the command table with its closing zero
CodeStart == ConstOffset + 4 * Len(cs.rom32) + 6 * Len(cs.commands) + 1

\* the declaration init has found: the last command element with the id
RECURSIVE DeclaredFrom(_, _)
DeclaredFrom(cmd, i) ==
    IF i = 0 THEN NoExpr
    ELSE IF src.elements[i].k = "command" /\ src.elements[i].cmd = cmd THEN src.elements[i]
    ELSE DeclaredFrom(cmd, i - 1)
Declared(cmd) == DeclaredFrom(cmd, Len(src.elements))
FunctionAddr(name) == cs.functions[findFunction(cs, name)].addr

InitCalled == host.inits > 0 /\ executable # <<>>

EntriesAgree ==
    Declared(99) # NoExpr =>
        /\ vm.initStart = CodeStart + FunctionAddr(Declared(99).ini)
        /\ vm.loopStart = CodeStart + FunctionAddr(Declared(99).loop)
        /\ getUInt8ROM(vm.initStart) = OpSetFrame
        /\ getUInt8ROM(vm.loopStart) = OpSetFrame

\* C37: the code offset init computes is the offset at which emit wrote the
\* first code byte, and the entries of the command address the SetFrame of
\* the functions its declaration names
C37_LayoutAgrees ==
    InitCalled => vm.codeOffset = CodeStart /\ EntriesAgree

\* emit writes the number of constants as one byte: the two agree while
\* there are fewer than 256 constants, and the entries address the first
\* byte of the functions named, which is SetFrame with the parameter count
\* in its low bits
FirstByte(name) == Or8(OpSetFrame, cs.functions[findFunction(cs, name)].args % 16)
C37_LayoutAgreesInByte ==
    InitCalled /\ Len(cs.rom32) < 256 =>
        /\ vm.codeOffset = CodeStart
        /\ Declared(99) # NoExpr =>
              /\ vm.initStart = CodeStart + FunctionAddr(Declared(99).ini)
              /\ vm.loopStart = CodeStart + FunctionAddr(Declared(99).loop)
              /\ getUInt8ROM(vm.initStart) = FirstByte(Declared(99).ini)
              /\ getUInt8ROM(vm.loopStart) = FirstByte(Declared(99).loop)
C37_CodeIsLast ==
    executable # <<>> =>
        /\ Len(executable) = CodeStart + Len(cs.rom8)
        /\ \A i \in 1 .. Len(cs.rom8) : executable[CodeStart + i] = cs.rom8[i]
        /\ executable[5] = Len(cs.rom32) % 256

C37_LayoutLoaded ==
    /\ InitCalled /\ src.name = "layout" /\ src.n = 255 /\ src.k = 2
    /\ vm.codeOffset = CodeStart /\ host.init = 1 /\ host.loop = 8 /\ host.loops = 1
C37_ByteWrapped ==
    /\ InitCalled /\ src.name = "layout" /\ src.n = 256 /\ vm.codeOffset # CodeStart


(***************************************************************************)
(* C38: the initializer of a global variable                               *)
(***************************************************************************)
GlobalInitCompiled == src # NoSource /\ src.name = "ginit" /\ executable # <<>>
\* execute is about to fetch the first instruction of the init function
InitStarts == mode = "init" /\ last.cmd = HostInitCall

\* C38: a global declared with an initializer holds the value when the
\* init function of the command starts
C38_GlobalInitialised ==
    GlobalInitCompiled /\ InitStarts => vm.global[0] = src.v

\* the code of the initializer is in the image, ahead of the function that
\* follows the declaration, and ends in the only PopDeref of the program
InitializerEnd == FunctionAddr(IF src.first THEN "Loop" ELSE "Init")
C38_InitializerEmitted ==
    GlobalInitCompiled =>
        /\ InitializerEnd >= 3
        /\ cs.rom8[InitializerEnd] = OpPopDeref
        /\ cs.rom8[InitializerEnd + 1] = OpSetFrame
        /\ \A i \in 1 .. Len(cs.rom8) : cs.rom8[i] = OpPopDeref => i = InitializerEnd
\* and is never executed: no run stores to the global, which keeps the
\* word that new left in it
C38_InitializerNotRun ==
    GlobalInitCompiled /\ host.inits > 0 =>
        /\ last.cmd # OpPopDeref
        /\ vm.global[0] \in Junk
        /\ mode # "idle" => vm.pc - CodeStart \notin (InitializerEnd - 3) .. (InitializerEnd - 1)

C38_InitStarted ==
    /\ GlobalInitCompiled /\ InitStarts /\ src.v = 5 /\ src.first
    /\ vm.global[0] # 5 /\ getUInt8ROM(vm.pc) = OpSetFrame
C38_JunkReturned ==
    /\ GlobalInitCompiled /\ mode = "idle" /\ last.cmd = OpReturn /\ last.mode = "init"
    /\ ~src.first /\ vm.result \in Junk /\ vm.result # src.v


(***************************************************************************)
(* C39: the types of the operands of an operator                           *)
(***************************************************************************)
ArithTypes == {TypeInt, TypeFloat}
TypedCompiled == src # NoSource /\ src.name = "typed" /\ host.compile # NotCalled
Variant(a) == IF a.left = TypeInt THEN a.intOp ELSE a.floatOp
TypedOperator == src.l = src.r /\ src.l # "s" /\ ~(src.l = "fv" /\ src.token \in {"&", "&="})

\* C39: an operator is emitted only for two operands of the same type, Int
\* or Float, as the variant of that type, and never as Op::None; operands of
\* other types and bitwise operators on Float are rejected with
\* MismatchedType or WrongType
C39_OperandsTyped ==
    /\ \A a \in cs.arithLog :
          /\ a.left = a.right /\ a.left \in ArithTypes
          /\ a.op = Variant(a) /\ a.op # OpNone
    /\ TypedCompiled /\ ~TypedOperator => host.error \in {"MismatchedType", "WrongType"}

\* what the code checks: the types are the same, whatever they are; the
\* variant is the Float one for every type but Int; Op::None is refused for
\* a binary operator only
C39_SameTypeOnly ==
    \A a \in cs.arithLog :
        /\ a.left = a.right
        /\ a.op = Variant(a)
        /\ a.assign = "None" => a.op # OpNone
C39_MixedRejected ==
    TypedCompiled /\ src.l # src.r => host.error = "MismatchedType" /\ executable = <<>>
C39_BinaryBitwiseFloatRejected ==
    TypedCompiled /\ src.l = "fv" /\ src.r = "fv" /\ src.token = "&" =>
        host.error = "WrongType" /\ executable = <<>>
C39_TypedAccepted ==
    TypedCompiled /\ TypedOperator => host.error = "None" /\ cs.arithLog # {}

C39_NoneEmitted ==
    /\ TypedCompiled /\ src.token = "&=" /\ src.l = "fv" /\ executable # <<>>
    /\ \E a \in cs.arithLog : a.op = OpNone /\ a.left = TypeFloat
    /\ \E i \in 1 .. Len(cs.rom8) : cs.rom8[i] = OpNone
C39_StructAdded ==
    /\ TypedCompiled /\ src.l = "s" /\ src.r = "s" /\ executable # <<>>
    /\ \E a \in cs.arithLog : a.left \notin ArithTypes /\ a.op = OpAddFloat
C39_FloatAdded ==
    /\ TypedCompiled /\ src.l = "fv" /\ src.token = "+=" /\ executable # <<>>
    /\ \E a \in cs.arithLog : a.left = TypeFloat /\ a.op = OpAddFloat

====
